---- MODULE Spec2Model ----
(***************************************************************************)
(* Model of pyembed/src/python_resources.rs: the decoder of the version-1  *)
(* embedded resources format (PythonImporterState::load_resources and      *)
(* load_resources_v1), the ingestion of the interpreter's builtin and      *)
(* frozen module tables, PythonImporterState::load, and                    *)
(* EmbeddedResource::uses_pyembed_importer.                                *)
(*                                                                         *)
(* The input buffer is a sequence of bytes.  A slice &data[a..b] is the    *)
(* record [buf, off |-> a, len |-> b - a]; its content is read from data.  *)
(* Option<T> is a sequence of length 0 (None) or 1 (Some).  A HashMap      *)
(* keyed by &str is a function whose domain is the set of key contents.    *)
(* usize is 64 bits wide.  A word below 2^24 is represented by itself, a   *)
(* word of 2^64 - 2^24 or more by the negative integer it is congruent to  *)
(* modulo 2^64, and every word between the two by Huge (it exceeds the     *)
(* length of every buffer of the model, and stays so when a length of the  *)
(* model is added to it).                                                  *)
(***************************************************************************)
EXTENDS Integers, Sequences, FiniteSets, TLC

VARIABLES
    data,                    \* the buffer handed to load_resources
    family,                  \* which generator produced the buffer
    entries,                 \* the writer's input (writer family), else << >>
    tokens,                  \* the records the per-entry index was built from
    pc,                      \* position of the call
    result,                  \* "none", "ok", "err" or "panic"
    err,                     \* the error string of an Err result
    pos,                     \* position of the Cursor reader
    blob_section_count,
    blob_index_length,
    resources_count,
    resources_index_length,
    blob_i,                  \* iterations of the blob index loop done
    total_blob_offset,
    start_offset,            \* the *_start_offset locals, by field tag
    cursor,                  \* the current_*_offset locals, by field tag
    current_resource,
    current_resource_name,
    index_entry_count,
    resources,               \* PythonImporterState::resources
    before,                  \* resources when load_resources was called
    walk_reads,              \* offsets of the tags read by the per-entry loop
    last_tag,                \* the per-entry tag handled by the last step, or -1
    order,                   \* the keys END_OF_ENTRY inserted in this call, in order
    buf_id,                  \* names the buffer of the current call
    loaded,                  \* the buffers of the earlier calls, by name
    inittab,                 \* the names of PyImport_Inittab, in order
    frozentab,               \* the names of PyImport_FrozenModules, in order
    op,                      \* the function the caller invoked
    step,                    \* the function that is running (op, or a step of load)
    tab_i,                   \* the index i of the table loop
    calls,                   \* how many functions the caller has invoked
    hist,                    \* the ingestions run since the last load_resources
    once,                    \* the catalog after the first builtin, frozen round
    answer                   \* what uses_pyembed_importer returned, if called

vars == <<data, family, entries, tokens, pc, result, err, pos,
          blob_section_count, blob_index_length, resources_count,
          resources_index_length, blob_i, total_blob_offset, start_offset,
          cursor, current_resource, current_resource_name, index_entry_count,
          resources, before, walk_reads, last_tag, order, buf_id, loaded, inittab,
          frozentab, op, step, tab_i, calls, hist, once, answer>>

(***************************************************************************)
(* Bounds of the model.                                                    *)
(***************************************************************************)
MaxEntries == 2
MaxChunks == 3
MaxBlobRecords == 2

(***************************************************************************)
(* Format constants.                                                       *)
(***************************************************************************)
RESOURCES_HEADER_V1 == <<112, 121, 101, 109, 98, 101, 100, 1>>

FIELD_END_OF_INDEX == 0
FIELD_START_OF_ENTRY == 1
FIELD_END_OF_ENTRY == 2
FIELD_MODULE_NAME == 3
FIELD_IS_PACKAGE == 4
FIELD_IS_NAMESPACE_PACKAGE == 5
FIELD_IN_MEMORY_SOURCE == 6
FIELD_IN_MEMORY_BYTECODE == 7
FIELD_IN_MEMORY_BYTECODE_OPT1 == 8
FIELD_IN_MEMORY_BYTECODE_OPT2 == 9
FIELD_IN_MEMORY_EXTENSION_MODULE_SHARED_LIBRARY == 10
FIELD_IN_MEMORY_RESOURCES_DATA == 11
FIELD_IN_MEMORY_PACKAGE_DISTRIBUTION == 12
FIELD_IN_MEMORY_SHARED_LIBRARY == 13
FIELD_SHARED_LIBRARY_DEPENDENCY_NAMES == 14

\* The fields that own a blob section and a cursor.
PayloadTags == {FIELD_MODULE_NAME} \cup
               (FIELD_IN_MEMORY_SOURCE .. FIELD_SHARED_LIBRARY_DEPENDENCY_NAMES)

\* The fields whose per-entry record is (tag, u32 length).
U32SliceTags == FIELD_IN_MEMORY_SOURCE ..
                FIELD_IN_MEMORY_EXTENSION_MODULE_SHARED_LIBRARY

MapTags == {FIELD_IN_MEMORY_RESOURCES_DATA, FIELD_IN_MEMORY_PACKAGE_DISTRIBUTION}

Byte == 0 .. 255
Huge == 256 * 256 * 256

(***************************************************************************)
(* Little-endian integers (byteorder::LittleEndian).                       *)
(***************************************************************************)
RECURSIVE ToLE(_, _)
ToLE(n, w) == IF w = 0 THEN << >> ELSE <<n % 256>> \o ToLE(n \div 256, w - 1)

RECURSIVE FromLE(_)
FromLE(bs) ==
    IF bs = << >> THEN 0
    ELSE LET r == FromLE(Tail(bs))
         IN  IF r >= Huge \div 256 THEN Huge ELSE Head(bs) + 256 * r

\* Whether the reader can read w bytes at offset p (read_exact succeeds).
CanRead(d, p, w) == p + w <= Len(d)

\* The word read_u64::<LittleEndian> returns for the 8 bytes bs: one of the
\* last 2^24 words is the negative integer congruent to it modulo 2^64.
Word(bs) ==
    IF \A i \in 4 .. 8 : bs[i] = 255
    THEN FromLE(SubSeq(bs, 1, 3)) - Huge
    ELSE FromLE(bs)

\* The integer read_uN::<LittleEndian> returns at offset p.
ReadLE(d, p, w) ==
    IF w = 8 THEN Word(SubSeq(d, p + 1, p + 8)) ELSE FromLE(SubSeq(d, p + 1, p + w))

RECURSIVE Concat(_)
Concat(ss) == IF ss = << >> THEN << >> ELSE Head(ss) \o Concat(Tail(ss))

RECURSIVE SumLen(_)
SumLen(ss) == IF ss = << >> THEN 0 ELSE Len(Head(ss)) + SumLen(Tail(ss))

SeqsUpTo(S, n) == UNION {[1 .. m -> S] : m \in 0 .. n}

(***************************************************************************)
(* Slices and entries.                                                     *)
(***************************************************************************)
Slice(a, l) == [buf |-> buf_id, off |-> a, len |-> l]

Content(d, s) == SubSeq(d, s.off + 1, s.off + s.len)

None == << >>
Some(x) == <<x>>

\* EmbeddedResource::default(); the name "" is the empty slice.
DefaultResource ==
    [name |-> Slice(0, 0),
     is_package |-> FALSE,
     is_namespace_package |-> FALSE,
     is_builtin |-> FALSE,
     is_frozen |-> FALSE,
     in_memory_source |-> None,
     in_memory_bytecode |-> None,
     in_memory_bytecode_opt1 |-> None,
     in_memory_bytecode_opt2 |-> None,
     in_memory_shared_library_extension_module |-> None,
     in_memory_resources |-> None,
     in_memory_package_distribution |-> None,
     in_memory_shared_library |-> None,
     shared_library_dependency_names |-> None]

\* HashMap::insert: the value under key k is replaced (or added).
MapInsert(m, k, v) ==
    [x \in DOMAIN m \cup {k} |-> IF x = k THEN v ELSE m[x]]

EmptyMap == [x \in {} |-> 0]

(***************************************************************************)
(* The records of the per-entry index.  A token is one record: its tag,    *)
(* the count it declares (maps and dependency names) and the payload       *)
(* contents it claims from its blob section, in the order it claims them   *)
(* (a map: key 1, value 1, key 2, value 2, ...).                           *)
(***************************************************************************)
Tok(t, n, ps) == [tag |-> t, n |-> n, parts |-> ps]

Flag(t) == Tok(t, 0, << >>)

RECURSIVE MapItemLengths(_)
MapItemLengths(ps) ==
    IF Len(ps) < 2 THEN << >>
    ELSE ToLE(Len(ps[1]), 2) \o ToLE(Len(ps[2]), 8)
         \o MapItemLengths(Tail(Tail(ps)))

RECURSIVE NameLengths(_)
NameLengths(ps) ==
    IF ps = << >> THEN << >>
    ELSE ToLE(Len(Head(ps)), 2) \o NameLengths(Tail(ps))

\* The bytes of one record in the per-entry index.
TokenIndexBytes(t) ==
    CASE t.tag = FIELD_MODULE_NAME -> <<t.tag>> \o ToLE(Len(t.parts[1]), 2)
      [] t.tag \in U32SliceTags -> <<t.tag>> \o ToLE(Len(t.parts[1]), 4)
      [] t.tag \in MapTags ->
            <<t.tag>> \o ToLE(t.n, 4) \o MapItemLengths(t.parts)
      [] t.tag = FIELD_IN_MEMORY_SHARED_LIBRARY ->
            <<t.tag>> \o ToLE(Len(t.parts[1]), 8)
      [] t.tag = FIELD_SHARED_LIBRARY_DEPENDENCY_NAMES ->
            <<t.tag>> \o ToLE(t.n, 2) \o NameLengths(t.parts)
      [] OTHER -> <<t.tag>>

RECURSIVE IndexBytes(_)
IndexBytes(ts) ==
    IF ts = << >> THEN << >>
    ELSE TokenIndexBytes(Head(ts)) \o IndexBytes(Tail(ts))

\* The blob section of field f: what the tokens of tag f claim, in order.
RECURSIVE SectionBytes(_, _)
SectionBytes(ts, f) ==
    IF ts = << >> THEN << >>
    ELSE (IF Head(ts).tag = f THEN Concat(Head(ts).parts) ELSE << >>)
         \o SectionBytes(Tail(ts), f)

HasSection(ts, f) == \E i \in 1 .. Len(ts) : ts[i].tag = f

\* The payload fields in the order the blob sections are laid out.
SectionOrder ==
    <<FIELD_MODULE_NAME, FIELD_IN_MEMORY_SOURCE, FIELD_IN_MEMORY_BYTECODE,
      FIELD_IN_MEMORY_BYTECODE_OPT1, FIELD_IN_MEMORY_BYTECODE_OPT2,
      FIELD_IN_MEMORY_EXTENSION_MODULE_SHARED_LIBRARY,
      FIELD_IN_MEMORY_RESOURCES_DATA, FIELD_IN_MEMORY_PACKAGE_DISTRIBUTION,
      FIELD_IN_MEMORY_SHARED_LIBRARY, FIELD_SHARED_LIBRARY_DEPENDENCY_NAMES>>

RECURSIVE BlobIndexOf(_, _)
BlobIndexOf(ts, fs) ==
    IF fs = << >> THEN << >>
    ELSE (IF HasSection(ts, Head(fs))
          THEN << <<Head(fs), Len(SectionBytes(ts, Head(fs)))>> >>
          ELSE << >>)
         \o BlobIndexOf(ts, Tail(fs))

RECURSIVE BlobIndexBytes(_)
BlobIndexBytes(rs) ==
    IF rs = << >> THEN << >>
    ELSE <<Head(rs)[1]>> \o ToLE(Head(rs)[2], 8) \o BlobIndexBytes(Tail(rs))

RECURSIVE BlobBytes(_, _)
BlobBytes(ts, fs) ==
    IF fs = << >> THEN << >>
    ELSE SectionBytes(ts, Head(fs)) \o BlobBytes(ts, Tail(fs))

\* The byte-exact version-1 layout: magic, fixed header, the two indices, blobs.
LayoutV1(bsc, bil, rc, ril, blobindex, index, blobs) ==
    RESOURCES_HEADER_V1 \o <<bsc % 256>> \o ToLE(bil, 4) \o ToLE(rc, 4)
    \o ToLE(ril, 4) \o blobindex \o index \o blobs

(***************************************************************************)
(* The reference writer, write_embedded_resources_v1.  An owned entry      *)
(* holds contents, not slices; a BTreeMap is the sequence of its           *)
(* <<key, value>> pairs in key order.                                      *)
(***************************************************************************)
RECURSIVE PairParts(_)
PairParts(kvs) ==
    IF kvs = << >> THEN << >>
    ELSE <<Head(kvs)[1], Head(kvs)[2]>> \o PairParts(Tail(kvs))

OptTok(t, o) == IF o = None THEN << >> ELSE <<Tok(t, 0, <<o[1]>>)>>

EntryTokens(e) ==
    <<Flag(FIELD_START_OF_ENTRY), Tok(FIELD_MODULE_NAME, 0, <<e.name>>)>>
    \o (IF e.is_package THEN <<Flag(FIELD_IS_PACKAGE)>> ELSE << >>)
    \o (IF e.is_namespace_package
        THEN <<Flag(FIELD_IS_NAMESPACE_PACKAGE)>> ELSE << >>)
    \o OptTok(FIELD_IN_MEMORY_SOURCE, e.in_memory_source)
    \o OptTok(FIELD_IN_MEMORY_BYTECODE, e.in_memory_bytecode)
    \o OptTok(FIELD_IN_MEMORY_BYTECODE_OPT1, e.in_memory_bytecode_opt1)
    \o OptTok(FIELD_IN_MEMORY_BYTECODE_OPT2, e.in_memory_bytecode_opt2)
    \o OptTok(FIELD_IN_MEMORY_EXTENSION_MODULE_SHARED_LIBRARY,
              e.in_memory_extension_module_shared_library)
    \o (IF e.in_memory_resources = None THEN << >>
        ELSE <<Tok(FIELD_IN_MEMORY_RESOURCES_DATA,
                   Len(e.in_memory_resources[1]),
                   PairParts(e.in_memory_resources[1]))>>)
    \o (IF e.in_memory_package_distribution = None THEN << >>
        ELSE <<Tok(FIELD_IN_MEMORY_PACKAGE_DISTRIBUTION,
                   Len(e.in_memory_package_distribution[1]),
                   PairParts(e.in_memory_package_distribution[1]))>>)
    \o OptTok(FIELD_IN_MEMORY_SHARED_LIBRARY, e.in_memory_shared_library)
    \o (IF e.shared_library_dependency_names = None THEN << >>
        ELSE <<Tok(FIELD_SHARED_LIBRARY_DEPENDENCY_NAMES,
                   Len(e.shared_library_dependency_names[1]),
                   e.shared_library_dependency_names[1])>>)
    \o <<Flag(FIELD_END_OF_ENTRY)>>

RECURSIVE EntriesTokens(_)
EntriesTokens(es) ==
    IF es = << >> THEN <<Flag(FIELD_END_OF_INDEX)>>
    ELSE EntryTokens(Head(es)) \o EntriesTokens(Tail(es))

\* The buffer in which every header field matches the indices that follow.
ConsistentBuffer(ts, rc) ==
    LET bi == BlobIndexOf(ts, SectionOrder)
        ix == IndexBytes(ts)
    IN  LayoutV1(Len(bi), 9 * Len(bi) + 1, rc, Len(ix),
                 BlobIndexBytes(bi) \o <<FIELD_END_OF_INDEX>>, ix,
                 BlobBytes(ts, SectionOrder))

write_embedded_resources_v1(es) == ConsistentBuffer(EntriesTokens(es), Len(es))

(***************************************************************************)
(* The buffers of the model.  Four families: headers (short, foreign or    *)
(* truncated), writer outputs, per-entry indices built from arbitrary      *)
(* short sequences of records, and arbitrary short blob-section indices.   *)
(***************************************************************************)
NameA == <<97>>
NameB == <<98, 99>>
NameC == <<100>>
NameOf(i) == <<NameA, NameB, NameC, <<101>>, <<102>>, <<103>>>>[i]

DataX == <<120>>
DataYZ == <<121, 122>>

OwnedDefault(nm) ==
    [name |-> nm,
     is_package |-> FALSE,
     is_namespace_package |-> FALSE,
     in_memory_source |-> None,
     in_memory_bytecode |-> None,
     in_memory_bytecode_opt1 |-> None,
     in_memory_bytecode_opt2 |-> None,
     in_memory_extension_module_shared_library |-> None,
     in_memory_resources |-> None,
     in_memory_package_distribution |-> None,
     in_memory_shared_library |-> None,
     shared_library_dependency_names |-> None]

\* The entries the writer is given, for a name: every field alone, some
\* together, empty and two-element maps and lists.
OwnedShapes(nm) ==
    LET d == OwnedDefault(nm)
    IN  { d,
          [d EXCEPT !.is_package = TRUE],
          [d EXCEPT !.is_namespace_package = TRUE],
          [d EXCEPT !.in_memory_source = Some(DataYZ)],
          [d EXCEPT !.in_memory_source = Some(<< >>)],
          [d EXCEPT !.in_memory_bytecode = Some(DataX)],
          [d EXCEPT !.in_memory_bytecode_opt1 = Some(DataYZ)],
          [d EXCEPT !.in_memory_bytecode_opt2 = Some(DataX)],
          [d EXCEPT !.in_memory_extension_module_shared_library = Some(DataYZ)],
          [d EXCEPT !.in_memory_resources = Some(<< >>)],
          [d EXCEPT !.in_memory_resources =
                        Some(<< <<NameA, DataX>>, <<NameB, DataYZ>> >>)],
          [d EXCEPT !.in_memory_package_distribution =
                        Some(<< <<NameB, DataX>> >>)],
          [d EXCEPT !.in_memory_shared_library = Some(DataX)],
          [d EXCEPT !.shared_library_dependency_names = Some(<< >>)],
          [d EXCEPT !.shared_library_dependency_names =
                        Some(<<NameB, NameA>>)],
          [d EXCEPT !.is_package = TRUE,
                    !.is_namespace_package = TRUE,
                    !.in_memory_source = Some(DataX),
                    !.in_memory_bytecode = Some(DataYZ),
                    !.in_memory_bytecode_opt1 = Some(DataX),
                    !.in_memory_bytecode_opt2 = Some(DataYZ),
                    !.in_memory_extension_module_shared_library = Some(DataX),
                    !.in_memory_resources =
                        Some(<< <<NameA, DataYZ>>, <<NameC, << >> >> >>),
                    !.in_memory_package_distribution =
                        Some(<< <<NameA, DataX>>, <<NameB, DataYZ>> >>),
                    !.in_memory_shared_library = Some(DataYZ),
                    !.shared_library_dependency_names =
                        Some(<<NameC, NameA>>)] }

\* Sequences of at most MaxEntries entries; the entry at place i is named
\* NameOf(i), or NameOf(1) again (a repeated name).
OwnedSeqs ==
    UNION { { es \in [1 .. m -> UNION {OwnedShapes(NameOf(j)) : j \in 1 .. m}] :
                \A i \in 1 .. m : es[i].name \in {NameOf(i), NameOf(1)} } :
            m \in 0 .. MaxEntries }

DistinctNames(es) ==
    \A i, j \in 1 .. Len(es) : i # j => es[i].name # es[j].name

\* The pieces the arbitrary per-entry indices are made of.
Chunks ==
    { <<Flag(FIELD_END_OF_INDEX)>>,
      <<Flag(FIELD_START_OF_ENTRY)>>,
      <<Flag(FIELD_END_OF_ENTRY)>>,
      <<Tok(FIELD_MODULE_NAME, 0, <<NameA>>)>>,
      <<Flag(FIELD_IS_PACKAGE)>>,
      <<Tok(FIELD_IN_MEMORY_SOURCE, 0, <<DataX>>)>>,
      <<Tok(FIELD_IN_MEMORY_RESOURCES_DATA, 1, <<NameA, DataX>>)>>,
      <<Tok(FIELD_IN_MEMORY_SHARED_LIBRARY, 0, <<DataYZ>>)>>,
      <<Tok(FIELD_SHARED_LIBRARY_DEPENDENCY_NAMES, 1, <<NameB>>)>>,
      <<Flag(15)>>,
      <<Flag(FIELD_START_OF_ENTRY), Tok(FIELD_MODULE_NAME, 0, <<NameA>>),
        Flag(FIELD_END_OF_ENTRY)>>,
      <<Flag(FIELD_START_OF_ENTRY), Tok(FIELD_MODULE_NAME, 0, <<NameB>>),
        Tok(FIELD_IN_MEMORY_SOURCE, 0, <<DataYZ>>), Flag(FIELD_END_OF_ENTRY)>> }

TokenSeqs == {Concat(cs) : cs \in SeqsUpTo(Chunks, MaxChunks)}

\* Indices whose START_OF_ENTRY and END_OF_ENTRY do not bracket the entries:
\* an entry that is closed but was never opened, then one that is opened and
\* never closed.
MisbracketedIndices ==
    { <<Tok(FIELD_MODULE_NAME, 0, <<NameA>>), Flag(FIELD_END_OF_ENTRY),
        Flag(FIELD_START_OF_ENTRY), Flag(FIELD_END_OF_INDEX)>>,
      <<Tok(FIELD_MODULE_NAME, 0, <<NameA>>), Flag(FIELD_END_OF_ENTRY),
        Flag(FIELD_START_OF_ENTRY), Tok(FIELD_MODULE_NAME, 0, <<NameB>>),
        Flag(FIELD_END_OF_INDEX)>> }

\* How the header of an arbitrary per-entry index departs from its content:
\* the advertised count, a zero index length, and bytes cut off the end of the
\* blob region.
WalkHeaders ==
    [rc : 0 .. 2, ril0 : {FALSE}, bil0 : {FALSE}, cut : {0}]
    \cup [rc : {1}, ril0 : {TRUE}, bil0 : {FALSE}, cut : {0}]
    \cup [rc : {1}, ril0 : {FALSE}, bil0 : {TRUE}, cut : {0}]
    \cup [rc : {1}, ril0 : {FALSE}, bil0 : {FALSE}, cut : {1}]

WalkBuffer(ts, h) ==
    LET bi == BlobIndexOf(ts, SectionOrder)
        ix == IndexBytes(ts)
        b  == LayoutV1(Len(bi),
                       IF h.bil0 THEN 0 ELSE 9 * Len(bi) + 1,
                       h.rc,
                       IF h.ril0 THEN 0 ELSE Len(ix),
                       IF h.bil0 THEN << >>
                       ELSE BlobIndexBytes(bi) \o <<FIELD_END_OF_INDEX>>,
                       ix,
                       BlobBytes(ts, SectionOrder))
    IN  IF Len(BlobBytes(ts, SectionOrder)) >= h.cut
        THEN SubSeq(b, 1, Len(b) - h.cut)
        ELSE b

\* Arbitrary blob-section indices in front of a one-entry per-entry index.
BlobTags == {0, 1, 2, 3, 4, 5, 6, 11, 14, 15}

BlobRecords == SeqsUpTo(BlobTags \X {0, 2}, MaxBlobRecords)

BlobTail ==
    <<Flag(FIELD_START_OF_ENTRY), Tok(FIELD_MODULE_NAME, 0, <<NameA>>),
      Tok(FIELD_IN_MEMORY_SOURCE, 0, <<DataYZ>>), Flag(FIELD_END_OF_ENTRY),
      Flag(FIELD_END_OF_INDEX)>>

BlobHeaders ==
    [bsc : 0 .. MaxBlobRecords, term : {FIELD_END_OF_INDEX, FIELD_START_OF_ENTRY}]

BlobBuffer(rs, h) ==
    LET ix == IndexBytes(BlobTail)
    IN  LayoutV1(h.bsc, 9 * Len(rs) + 1, 1, Len(ix),
                 BlobIndexBytes(rs) \o <<h.term>>, ix,
                 BlobBytes(BlobTail, SectionOrder))

\* Headers: every proper prefix of an empty catalog's buffer, foreign magics,
\* blob-section indices cut off inside or after their one record, and
\* per-entry indices with tags 16 and 255, a per-entry index longer than
\* the resources_index_length of its header, a name longer than the
\* blob_length of the names, and the buffers whose lengths overflow.
EmptyCatalogBuffer == ConsistentBuffer(<<Flag(FIELD_END_OF_INDEX)>>, 0)

\* Buffers whose lengths make a usize addition of the decoder exceed the
\* word: a blob_length of 2^64 - 1 before the names (blob start + base
\* offset), a blob_length of 2^64 - 1 after them (the running total), and
\* a shared library length of 2^64 - 1 in the per-entry index (cursor +
\* length).  Each index holds one entry named by one byte.
OverflowBuffers ==
    { LayoutV1(2, 19, 1, 6,
               BlobIndexBytes(<< <<FIELD_IN_MEMORY_SOURCE, -1>>,
                                 <<FIELD_MODULE_NAME, 1>> >>)
                   \o <<FIELD_END_OF_INDEX>>,
               <<FIELD_START_OF_ENTRY, FIELD_MODULE_NAME, 1, 0,
                 FIELD_END_OF_ENTRY, FIELD_END_OF_INDEX>>,
               <<97>>),
      LayoutV1(3, 28, 1, 6,
               BlobIndexBytes(<< <<FIELD_MODULE_NAME, 1>>,
                                 <<FIELD_IN_MEMORY_SOURCE, -1>>,
                                 <<FIELD_IN_MEMORY_BYTECODE, 2>> >>)
                   \o <<FIELD_END_OF_INDEX>>,
               <<FIELD_START_OF_ENTRY, FIELD_MODULE_NAME, 1, 0,
                 FIELD_END_OF_ENTRY, FIELD_END_OF_INDEX>>,
               <<97, 98, 99>>),
      LayoutV1(2, 19, 1, 15,
               BlobIndexBytes(<< <<FIELD_MODULE_NAME, 1>>,
                                 <<FIELD_IN_MEMORY_SHARED_LIBRARY, 0>> >>)
                   \o <<FIELD_END_OF_INDEX>>,
               <<FIELD_START_OF_ENTRY, FIELD_MODULE_NAME, 1, 0,
                 FIELD_IN_MEMORY_SHARED_LIBRARY>> \o ToLE(-1, 8)
                   \o <<FIELD_END_OF_ENTRY, FIELD_END_OF_INDEX>>,
               <<97>>) }

HeaderBuffers ==
    {SubSeq(EmptyCatalogBuffer, 1, n) : n \in 0 .. Len(EmptyCatalogBuffer) - 1}
    \cup { <<102, 111, 111>>,
           <<112, 121, 101, 109, 98, 101, 100, 0>>,
           <<112, 121, 101, 109, 98, 101, 100, 2>>,
           <<112, 121, 101, 109, 98, 101, 100, 2>>
               \o SubSeq(EmptyCatalogBuffer, 9, Len(EmptyCatalogBuffer)),
           <<80>> \o Tail(EmptyCatalogBuffer) }
    \cup { LayoutV1(1, 10, 0, 0, bi, << >>, << >>) :
             bi \in { << >>, <<15, 2, 0>>, <<FIELD_MODULE_NAME>>,
                      <<FIELD_MODULE_NAME>> \o ToLE(2, 8) } }
    \cup { LayoutV1(0, 0, 1, Len(ix), << >>, ix, << >>) :
             ix \in { <<255>>, <<16, FIELD_END_OF_INDEX>>,
                      <<FIELD_START_OF_ENTRY, 255, FIELD_END_OF_ENTRY>> } }
    \cup { LayoutV1(0, 1, 1, 1, <<FIELD_END_OF_INDEX>>,
                     <<FIELD_START_OF_ENTRY, FIELD_MODULE_NAME, 1, 0,
                       FIELD_END_OF_ENTRY, FIELD_END_OF_INDEX>>, << >>) }
    \cup { LayoutV1(2, 19, 1, 11,
                     BlobIndexBytes(<< <<FIELD_MODULE_NAME, 1>>,
                                       <<FIELD_IN_MEMORY_SOURCE, 1>> >>)
                         \o <<FIELD_END_OF_INDEX>>,
                     <<FIELD_START_OF_ENTRY, FIELD_MODULE_NAME, 2, 0,
                       FIELD_IN_MEMORY_SOURCE, 1, 0, 0, 0,
                       FIELD_END_OF_ENTRY, FIELD_END_OF_INDEX>>,
                     <<97, 98>>) }
    \cup OverflowBuffers

Input(f, d, es, ts) == [family |-> f, data |-> d, entries |-> es, tokens |-> ts]

Families == {"header", "writer", "walk", "blob"}

\* What the buffers of a family are built from.
Seeds(f) ==
    IF f = "header" THEN HeaderBuffers
    ELSE IF f = "writer" THEN OwnedSeqs
    ELSE IF f = "walk" THEN (TokenSeqs \cup MisbracketedIndices) \X WalkHeaders
    ELSE BlobRecords \X BlobHeaders

\* The buffer built from a seed, with what it was built from.
InputOf(f, x) ==
    IF f = "header" THEN Input(f, x, << >>, << >>)
    ELSE IF f = "writer"
    THEN Input(f, write_embedded_resources_v1(x), x, EntriesTokens(x))
    ELSE IF f = "walk" THEN Input(f, WalkBuffer(x[1], x[2]), << >>, x[1])
    ELSE Input(f, BlobBuffer(x[1], x[2]), << >>, BlobTail)

(***************************************************************************)
(* The state after PythonImporterState::default(), with a buffer to load.  *)
(***************************************************************************)
inputVars == <<data, family, entries, tokens>>
\* What load_resources neither reads nor writes: the buffers of other calls,
\* the interpreter's tables, and the caller's position.
hostVars == <<buf_id, loaded, inittab, frozentab, op, step, tab_i, calls, hist,
              once, answer>>
headerVars == <<blob_section_count, blob_index_length, resources_count,
                resources_index_length>>
blobVars == <<blob_i, total_blob_offset, start_offset>>
scratchVars == <<current_resource, current_resource_name, index_entry_count>>
walkLog == <<walk_reads, last_tag, order>>

Init ==
    /\ \E f \in Families :
          \E x \in Seeds(f) :
              LET inp == InputOf(f, x)
              IN  /\ data = inp.data
                  /\ family = inp.family
                  /\ entries = inp.entries
                  /\ tokens = inp.tokens
    /\ buf_id = "data"
    /\ loaded = EmptyMap
    /\ inittab = << >>
    /\ frozentab = << >>
    /\ op = "load_resources"
    /\ step = "load_resources"
    /\ tab_i = 0
    /\ calls = 1
    /\ hist = << >>
    /\ once = None
    /\ answer = None
    /\ pc = "start"
    /\ result = "none"
    /\ err = ""
    /\ pos = 0
    /\ blob_section_count = 0
    /\ blob_index_length = 0
    /\ resources_count = 0
    /\ resources_index_length = 0
    /\ blob_i = 0
    /\ total_blob_offset = 0
    /\ start_offset = [f \in PayloadTags |-> 0]
    /\ cursor = [f \in PayloadTags |-> 0]
    /\ current_resource = DefaultResource
    /\ current_resource_name = None
    /\ index_entry_count = 0
    /\ resources = EmptyMap
    /\ before = EmptyMap
    /\ walk_reads = << >>
    /\ last_tag = -1
    /\ order = << >>

\* The call returns: Ok(()), Err(e), or it panics.
Return(r, e) == pc' = "done" /\ result' = r /\ err' = e
Ok == Return("ok", "")
Fail(e) == Return("err", e)
Panic == Return("panic", "")
Goto(p) == pc' = p /\ UNCHANGED <<result, err>>

\* usize sums, kept representable: 2^24 and more is Huge.
Clamp(x) == IF x >= Huge THEN Huge ELSE x

\* The usize addition a + b exceeds the 64 bit word: a build with overflow
\* checks panics there, a build without them keeps the sum modulo 2^64.
Overflows(a, b) ==
    /\ a # Huge
    /\ b # Huge
    /\ \/ a < 0 /\ b < 0
       \/ (a < 0 \/ b < 0) /\ a + b >= 0

\* a + b as the build without overflow checks computes it (modulo 2^64).
WrapAdd(a, b) == IF a = Huge \/ b = Huge THEN Huge ELSE Clamp(a + b)

\* &data[a .. a + l] does not panic: the end a + l is computed without
\* overflow and lies in the buffer (a wrapped end lies before the start).
InBounds(a, l) == a >= 0 /\ l >= 0 /\ a + l <= Len(data)

(***************************************************************************)
(* load_resources: the 8 byte header and the dispatch on it.               *)
(***************************************************************************)
\* Mutant: a short buffer is compared with the magic like any other.
LoadResources_ShortAsUnrecognized ==
    /\ pc = "start"
    /\ before' = resources
    /\ IF CanRead(data, 0, 8) /\ SubSeq(data, 1, 8) = RESOURCES_HEADER_V1
       THEN Goto("v1") /\ pos' = 8
       ELSE Fail("unrecognized file format") /\ UNCHANGED pos
    /\ UNCHANGED <<hostVars, inputVars, headerVars, blobVars, cursor, scratchVars,
                   resources, walkLog>>

\* Mutant: only the seven magic bytes are compared, not the version byte.
LoadResources_IgnoreVersion ==
    /\ pc = "start"
    /\ before' = resources
    /\ IF ~CanRead(data, 0, 8)
       THEN Fail("error reading 8 byte header") /\ UNCHANGED pos
       ELSE IF SubSeq(data, 1, 7) = SubSeq(RESOURCES_HEADER_V1, 1, 7)
            THEN Goto("v1") /\ pos' = 8
            ELSE Fail("unrecognized file format") /\ UNCHANGED pos
    /\ UNCHANGED <<hostVars, inputVars, headerVars, blobVars, cursor, scratchVars,
                   resources, walkLog>>

LoadResources ==
    /\ pc = "start"
    /\ before' = resources
    /\ IF ~CanRead(data, 0, 8)
       THEN Fail("error reading 8 byte header") /\ UNCHANGED pos
       ELSE IF SubSeq(data, 1, 8) = RESOURCES_HEADER_V1
            THEN Goto("v1") /\ pos' = 8
            ELSE Fail("unrecognized file format") /\ UNCHANGED pos
    /\ UNCHANGED <<hostVars, inputVars, headerVars, blobVars, cursor, scratchVars,
                   resources, walkLog>>

(***************************************************************************)
(* load_resources_v1: the fixed header.                                    *)
(***************************************************************************)
ReadFixedHeader ==
    /\ pc = "v1"
    /\ IF ~CanRead(data, pos, 1)
       THEN Fail("failed reading blob section count")
            /\ UNCHANGED <<pos, headerVars>>
       ELSE IF ~CanRead(data, pos + 1, 4)
       THEN Fail("failed reading blob index length")
            /\ UNCHANGED <<pos, headerVars>>
       ELSE IF ~CanRead(data, pos + 5, 4)
       THEN Fail("failed reading resources count")
            /\ UNCHANGED <<pos, headerVars>>
       ELSE IF ~CanRead(data, pos + 9, 4)
       THEN Fail("failed reading resources index length")
            /\ UNCHANGED <<pos, headerVars>>
       ELSE /\ blob_section_count' = ReadLE(data, pos, 1)
            /\ blob_index_length' = ReadLE(data, pos + 1, 4)
            /\ resources_count' = ReadLE(data, pos + 5, 4)
            /\ resources_index_length' = ReadLE(data, pos + 9, 4)
            /\ pos' = pos + 13
            /\ Goto(IF ReadLE(data, pos + 1, 4) > 0 THEN "blob_index" ELSE "offsets")
    /\ UNCHANGED <<hostVars, inputVars, blobVars, cursor, scratchVars, resources, before,
                   walkLog>>

(***************************************************************************)
(* One iteration of the blob-section index loop.                           *)
(***************************************************************************)
\* Mutant: a record with a tag the loop does not handle is passed over.
BlobIndexRecord_SkipsUnhandled ==
    /\ pc = "blob_index"
    /\ blob_i < blob_section_count
    /\ IF ~CanRead(data, pos, 1)
       THEN Fail("failed reading blob length field type")
            /\ UNCHANGED <<pos, blobVars>>
       ELSE IF data[pos + 1] = FIELD_END_OF_INDEX
       THEN Fail("unexpected end of blob index")
            /\ pos' = pos + 1 /\ UNCHANGED blobVars
       ELSE IF ~CanRead(data, pos + 1, 8)
       THEN Fail("failed reading field blob length")
            /\ pos' = pos + 1 /\ UNCHANGED blobVars
       ELSE \/ /\ Overflows(total_blob_offset, ReadLE(data, pos + 1, 8))
               /\ Panic
               /\ pos' = pos + 9 /\ UNCHANGED blobVars
            \/ /\ start_offset' =
                     IF data[pos + 1] \in PayloadTags
                     THEN [start_offset EXCEPT ![data[pos + 1]] = total_blob_offset]
                     ELSE start_offset
               /\ total_blob_offset' =
                     WrapAdd(total_blob_offset, ReadLE(data, pos + 1, 8))
               /\ blob_i' = blob_i + 1
               /\ pos' = pos + 9
               /\ Goto("blob_index")
    /\ UNCHANGED <<hostVars, inputVars, headerVars, cursor, scratchVars, resources,
                   before, walkLog>>

BlobIndexRecord ==
    /\ pc = "blob_index"
    /\ blob_i < blob_section_count
    /\ IF ~CanRead(data, pos, 1)
       THEN Fail("failed reading blob length field type")
            /\ UNCHANGED <<pos, blobVars>>
       ELSE IF data[pos + 1] = FIELD_END_OF_INDEX
       THEN Fail("unexpected end of blob index")
            /\ pos' = pos + 1 /\ UNCHANGED blobVars
       ELSE IF ~CanRead(data, pos + 1, 8)
       THEN Fail("failed reading field blob length")
            /\ pos' = pos + 1 /\ UNCHANGED blobVars
       ELSE IF data[pos + 1] \notin PayloadTags
       THEN Fail("unhandled field in blob length index")
            /\ pos' = pos + 9 /\ UNCHANGED blobVars
       ELSE \/ /\ Overflows(total_blob_offset, ReadLE(data, pos + 1, 8))
               /\ Panic
               /\ pos' = pos + 9 /\ UNCHANGED blobVars
            \/ /\ start_offset' =
                     [start_offset EXCEPT ![data[pos + 1]] = total_blob_offset]
               /\ total_blob_offset' =
                     WrapAdd(total_blob_offset, ReadLE(data, pos + 1, 8))
               /\ blob_i' = blob_i + 1
               /\ pos' = pos + 9
               /\ Goto("blob_index")
    /\ UNCHANGED <<hostVars, inputVars, headerVars, cursor, scratchVars, resources,
                   before, walkLog>>

\* Mutant: whatever byte follows the records closes the blob-section index.
BlobIndexEnd_AnyTerminator ==
    /\ pc = "blob_index"
    /\ blob_i >= blob_section_count
    /\ IF ~CanRead(data, pos, 1)
       THEN Fail("failed to read end of blob index field") /\ UNCHANGED pos
       ELSE Goto("offsets") /\ pos' = pos + 1
    /\ UNCHANGED <<hostVars, inputVars, headerVars, blobVars, cursor, scratchVars,
                   resources, before, walkLog>>

\* The END_OF_INDEX that closes the blob-section index.
BlobIndexEnd ==
    /\ pc = "blob_index"
    /\ blob_i >= blob_section_count
    /\ IF ~CanRead(data, pos, 1)
       THEN Fail("failed to read end of blob index field") /\ UNCHANGED pos
       ELSE IF data[pos + 1] # FIELD_END_OF_INDEX
       THEN Fail("unexpected value at end of blob index") /\ pos' = pos + 1
       ELSE Goto("offsets") /\ pos' = pos + 1
    /\ UNCHANGED <<hostVars, inputVars, headerVars, blobVars, cursor, scratchVars,
                   resources, before, walkLog>>

(***************************************************************************)
(* The start of the blob region, the cursors, the scratch entry, and the   *)
(* return when there is no entry to read.                                  *)
(***************************************************************************)
\* Mutant: the blob region is taken to start right after the blob-section
\* index.
blob_start_offset_NoResourcesIndex ==
    Clamp(Len(RESOURCES_HEADER_V1) + 1 + 4 + 4 + 4 + blob_index_length)

blob_start_offset ==
    Clamp(Len(RESOURCES_HEADER_V1) + 1 + 4 + 4 + 4
          + blob_index_length + resources_index_length)

\* Mutant: the early return needs both the length and the count to be zero.
InitCursors_BothZero ==
    /\ pc = "offsets"
    /\ \/ /\ \E f \in PayloadTags : Overflows(blob_start_offset, start_offset[f])
          /\ Panic
          /\ UNCHANGED <<cursor, scratchVars>>
       \/ /\ cursor' = [f \in PayloadTags |->
                           WrapAdd(blob_start_offset, start_offset[f])]
          /\ current_resource' = DefaultResource
          /\ current_resource_name' = None
          /\ index_entry_count' = 0
          /\ IF resources_index_length = 0 /\ resources_count = 0
             THEN Ok
             ELSE Goto("walk")
    /\ UNCHANGED <<hostVars, inputVars, headerVars, blobVars, pos, resources, before,
                   walkLog>>

InitCursors ==
    /\ pc = "offsets"
    /\ \/ /\ \E f \in PayloadTags : Overflows(blob_start_offset, start_offset[f])
          /\ Panic
          /\ UNCHANGED <<cursor, scratchVars>>
       \/ /\ cursor' = [f \in PayloadTags |->
                           WrapAdd(blob_start_offset, start_offset[f])]
          /\ current_resource' = DefaultResource
          /\ current_resource_name' = None
          /\ index_entry_count' = 0
          /\ IF resources_index_length = 0 \/ resources_count = 0
             THEN Ok
             ELSE Goto("walk")
    /\ UNCHANGED <<hostVars, inputVars, headerVars, blobVars, pos, resources, before,
                   walkLog>>

(***************************************************************************)
(* The per-entry loop: one action per arm of the match on field_type.      *)
(***************************************************************************)
\* The loop is about to read a field type, and the byte is there.
AtTag(t) == pc = "walk" /\ CanRead(data, pos, 1) /\ data[pos + 1] = t

LogRead ==
    /\ walk_reads' = Append(walk_reads, pos)
    /\ last_tag' = data[pos + 1]
    /\ order' = IF data[pos + 1] = FIELD_END_OF_ENTRY /\ current_resource_name # None
                THEN Append(order, Content(data, current_resource_name[1]))
                ELSE order

ReadFieldTypeFails ==
    /\ pc = "walk"
    /\ ~CanRead(data, pos, 1)
    /\ Fail("failed reading field type")
    /\ UNCHANGED <<hostVars, inputVars, headerVars, blobVars, cursor, scratchVars, pos,
                   resources, before, walkLog>>

\* Mutant: the count is not checked after the loop.
EndOfIndex_NoCheck ==
    /\ AtTag(FIELD_END_OF_INDEX)
    /\ LogRead
    /\ pos' = pos + 1
    /\ Ok
    /\ UNCHANGED <<hostVars, inputVars, headerVars, blobVars, cursor, scratchVars,
                   resources, before>>

\* Mutant: only more entries than advertised are a mismatch.
EndOfIndex_OnlyExcess ==
    /\ AtTag(FIELD_END_OF_INDEX)
    /\ LogRead
    /\ pos' = pos + 1
    /\ IF index_entry_count > resources_count
       THEN Fail("mismatch between advertised index count and actual")
       ELSE Ok
    /\ UNCHANGED <<hostVars, inputVars, headerVars, blobVars, cursor, scratchVars,
                   resources, before>>

\* Mutant: only fewer entries than advertised are a mismatch.
EndOfIndex_OnlyShortfall ==
    /\ AtTag(FIELD_END_OF_INDEX)
    /\ LogRead
    /\ pos' = pos + 1
    /\ IF index_entry_count < resources_count
       THEN Fail("mismatch between advertised index count and actual")
       ELSE Ok
    /\ UNCHANGED <<hostVars, inputVars, headerVars, blobVars, cursor,
                   scratchVars, resources, before>>

\* Mutant: END_OF_INDEX is an error while the scratch entry has a name.
EndOfIndex_RejectsOpenEntry ==
    /\ AtTag(FIELD_END_OF_INDEX)
    /\ LogRead
    /\ pos' = pos + 1
    /\ IF index_entry_count # resources_count \/ current_resource_name # None
       THEN Fail("mismatch between advertised index count and actual")
       ELSE Ok
    /\ UNCHANGED <<hostVars, inputVars, headerVars, blobVars, cursor, scratchVars,
                   resources, before>>

\* FIELD_END_OF_INDEX => break, and the check of the count after the loop.
EndOfIndex ==
    /\ AtTag(FIELD_END_OF_INDEX)
    /\ LogRead
    /\ pos' = pos + 1
    /\ IF index_entry_count # resources_count
       THEN Fail("mismatch between advertised index count and actual")
       ELSE Ok
    /\ UNCHANGED <<hostVars, inputVars, headerVars, blobVars, cursor, scratchVars,
                   resources, before>>

\* Mutant: the scratch name is not cleared when an entry starts.
StartOfEntry_KeepsName ==
    /\ AtTag(FIELD_START_OF_ENTRY)
    /\ LogRead
    /\ pos' = pos + 1
    /\ index_entry_count' = index_entry_count + 1
    /\ current_resource' = DefaultResource
    /\ UNCHANGED current_resource_name
    /\ Goto("walk")
    /\ UNCHANGED <<hostVars, inputVars, headerVars, blobVars, cursor, resources, before>>

\* Mutant: the scratch entry is not reset when an entry starts.
StartOfEntry_KeepsEntry ==
    /\ AtTag(FIELD_START_OF_ENTRY)
    /\ LogRead
    /\ pos' = pos + 1
    /\ index_entry_count' = index_entry_count + 1
    /\ UNCHANGED current_resource
    /\ current_resource_name' = None
    /\ Goto("walk")
    /\ UNCHANGED <<hostVars, inputVars, headerVars, blobVars, cursor, resources, before>>

StartOfEntry ==
    /\ AtTag(FIELD_START_OF_ENTRY)
    /\ LogRead
    /\ pos' = pos + 1
    /\ index_entry_count' = index_entry_count + 1
    /\ current_resource' = DefaultResource
    /\ current_resource_name' = None
    /\ Goto("walk")
    /\ UNCHANGED <<hostVars, inputVars, headerVars, blobVars, cursor, resources, before>>

\* Mutant: the scratch name survives the insertion.
EndOfEntry_KeepsName ==
    /\ AtTag(FIELD_END_OF_ENTRY)
    /\ LogRead
    /\ pos' = pos + 1
    /\ IF current_resource_name # None
       THEN /\ resources' = MapInsert(resources,
                                      Content(data, current_resource_name[1]),
                                      current_resource)
            /\ current_resource' = DefaultResource
            /\ UNCHANGED current_resource_name
            /\ Goto("walk")
       ELSE /\ Fail("resource name field is required")
            /\ UNCHANGED <<resources, current_resource, current_resource_name>>
    /\ UNCHANGED <<hostVars, inputVars, headerVars, blobVars, cursor, index_entry_count,
                   before>>

EndOfEntry ==
    /\ AtTag(FIELD_END_OF_ENTRY)
    /\ LogRead
    /\ pos' = pos + 1
    /\ IF current_resource_name # None
       THEN /\ resources' = MapInsert(resources,
                                      Content(data, current_resource_name[1]),
                                      current_resource)
            /\ current_resource' = DefaultResource
            /\ current_resource_name' = None
            /\ Goto("walk")
       ELSE /\ Fail("resource name field is required")
            /\ UNCHANGED <<resources, current_resource, current_resource_name>>
    /\ UNCHANGED <<hostVars, inputVars, headerVars, blobVars, cursor, index_entry_count,
                   before>>

\* Mutant: the entry keeps the name of its first MODULE_NAME field.
ModuleName_KeepsFirstName ==
    /\ AtTag(FIELD_MODULE_NAME)
    /\ LogRead
    /\ IF ~CanRead(data, pos + 1, 2)
       THEN /\ Fail("failed reading resource name length")
            /\ pos' = pos + 1
            /\ UNCHANGED <<cursor, current_resource, current_resource_name>>
       ELSE LET l == ReadLE(data, pos + 1, 2)
                c == cursor[FIELD_MODULE_NAME]
            IN  IF ~InBounds(c, l)
                THEN /\ Panic
                     /\ pos' = pos + 3
                     /\ UNCHANGED <<cursor, current_resource,
                                    current_resource_name>>
                ELSE /\ current_resource_name' = Some(Slice(c, l))
                     /\ cursor' = [cursor EXCEPT ![FIELD_MODULE_NAME] = c + l]
                     /\ current_resource' =
                           IF current_resource_name = None
                           THEN [current_resource EXCEPT !.name = Slice(c, l)]
                           ELSE current_resource
                     /\ pos' = pos + 3
                     /\ Goto("walk")
    /\ UNCHANGED <<hostVars, inputVars, headerVars, blobVars, index_entry_count,
                   resources, before>>

ModuleName ==
    /\ AtTag(FIELD_MODULE_NAME)
    /\ LogRead
    /\ IF ~CanRead(data, pos + 1, 2)
       THEN /\ Fail("failed reading resource name length")
            /\ pos' = pos + 1
            /\ UNCHANGED <<cursor, current_resource, current_resource_name>>
       ELSE LET l == ReadLE(data, pos + 1, 2)
                c == cursor[FIELD_MODULE_NAME]
            IN  IF ~InBounds(c, l)
                THEN /\ Panic
                     /\ pos' = pos + 3
                     /\ UNCHANGED <<cursor, current_resource,
                                    current_resource_name>>
                ELSE /\ current_resource_name' = Some(Slice(c, l))
                     /\ cursor' = [cursor EXCEPT ![FIELD_MODULE_NAME] = c + l]
                     /\ current_resource' =
                           [current_resource EXCEPT !.name = Slice(c, l)]
                     /\ pos' = pos + 3
                     /\ Goto("walk")
    /\ UNCHANGED <<hostVars, inputVars, headerVars, blobVars, index_entry_count,
                   resources, before>>

\* Mutant: the reader stays on the IS_PACKAGE tag.
IsPackage_NoAdvance ==
    /\ AtTag(FIELD_IS_PACKAGE)
    /\ LogRead
    /\ UNCHANGED pos
    /\ current_resource' = [current_resource EXCEPT !.is_package = TRUE]
    /\ Goto("walk")
    /\ UNCHANGED <<hostVars, inputVars, headerVars, blobVars, cursor,
                   current_resource_name, index_entry_count, resources, before>>

IsPackage ==
    /\ AtTag(FIELD_IS_PACKAGE)
    /\ LogRead
    /\ pos' = pos + 1
    /\ current_resource' = [current_resource EXCEPT !.is_package = TRUE]
    /\ Goto("walk")
    /\ UNCHANGED <<hostVars, inputVars, headerVars, blobVars, cursor,
                   current_resource_name, index_entry_count, resources, before>>

IsNamespacePackage ==
    /\ AtTag(FIELD_IS_NAMESPACE_PACKAGE)
    /\ LogRead
    /\ pos' = pos + 1
    /\ current_resource' =
          [current_resource EXCEPT !.is_namespace_package = TRUE]
    /\ Goto("walk")
    /\ UNCHANGED <<hostVars, inputVars, headerVars, blobVars, cursor,
                   current_resource_name, index_entry_count, resources, before>>

\* The scratch entry with the slice s attached as the payload of field t.
Attach(r, t, s) ==
    CASE t = FIELD_IN_MEMORY_SOURCE -> [r EXCEPT !.in_memory_source = Some(s)]
      [] t = FIELD_IN_MEMORY_BYTECODE ->
            [r EXCEPT !.in_memory_bytecode = Some(s)]
      [] t = FIELD_IN_MEMORY_BYTECODE_OPT1 ->
            [r EXCEPT !.in_memory_bytecode_opt1 = Some(s)]
      [] t = FIELD_IN_MEMORY_BYTECODE_OPT2 ->
            [r EXCEPT !.in_memory_bytecode_opt2 = Some(s)]
      [] t = FIELD_IN_MEMORY_EXTENSION_MODULE_SHARED_LIBRARY ->
            [r EXCEPT !.in_memory_shared_library_extension_module = Some(s)]
      [] t = FIELD_IN_MEMORY_RESOURCES_DATA ->
            [r EXCEPT !.in_memory_resources = Some(s)]
      [] t = FIELD_IN_MEMORY_PACKAGE_DISTRIBUTION ->
            [r EXCEPT !.in_memory_package_distribution = Some(s)]
      [] t = FIELD_IN_MEMORY_SHARED_LIBRARY ->
            [r EXCEPT !.in_memory_shared_library = Some(s)]
      [] t = FIELD_SHARED_LIBRARY_DEPENDENCY_NAMES ->
            [r EXCEPT !.shared_library_dependency_names = Some(s)]

\* Mutant: the slice is taken without the bounds check.
SliceField_Unchecked(t, w, msg) ==
    /\ IF ~CanRead(data, pos + 1, w)
       THEN /\ Fail(msg)
            /\ pos' = pos + 1
            /\ UNCHANGED <<cursor, current_resource>>
       ELSE LET l == ReadLE(data, pos + 1, w)
                c == cursor[t]
            IN  /\ current_resource' = Attach(current_resource, t, Slice(c, l))
                /\ cursor' = [cursor EXCEPT ![t] = c + l]
                /\ pos' = pos + 1 + w
                /\ Goto("walk")
    /\ UNCHANGED <<hostVars, inputVars, headerVars, blobVars, current_resource_name,
                   index_entry_count, resources, before>>

\* Mutant: the cursor is not advanced past the slice.
SliceField_NoAdvance(t, w, msg) ==
    /\ IF ~CanRead(data, pos + 1, w)
       THEN /\ Fail(msg)
            /\ pos' = pos + 1
            /\ UNCHANGED <<cursor, current_resource>>
       ELSE LET l == ReadLE(data, pos + 1, w)
                c == cursor[t]
            IN  IF ~InBounds(c, l)
                THEN /\ Panic
                     /\ pos' = pos + 1 + w
                     /\ UNCHANGED <<cursor, current_resource>>
                ELSE /\ current_resource' =
                           Attach(current_resource, t, Slice(c, l))
                     /\ UNCHANGED cursor
                     /\ pos' = pos + 1 + w
                     /\ Goto("walk")
    /\ UNCHANGED <<hostVars, inputVars, headerVars, blobVars, current_resource_name,
                   index_entry_count, resources, before>>

\* The body of an arm that reads one length of w bytes and takes one slice
\* at cursor t.
SliceField(t, w, msg) ==
    /\ IF ~CanRead(data, pos + 1, w)
       THEN /\ Fail(msg)
            /\ pos' = pos + 1
            /\ UNCHANGED <<cursor, current_resource>>
       ELSE LET l == ReadLE(data, pos + 1, w)
                c == cursor[t]
            IN  IF ~InBounds(c, l)
                THEN /\ Panic
                     /\ pos' = pos + 1 + w
                     /\ UNCHANGED <<cursor, current_resource>>
                ELSE /\ current_resource' =
                           Attach(current_resource, t, Slice(c, l))
                     /\ cursor' = [cursor EXCEPT ![t] = c + l]
                     /\ pos' = pos + 1 + w
                     /\ Goto("walk")
    /\ UNCHANGED <<hostVars, inputVars, headerVars, blobVars, current_resource_name,
                   index_entry_count, resources, before>>

InMemorySource ==
    /\ AtTag(FIELD_IN_MEMORY_SOURCE)
    /\ LogRead
    /\ SliceField(FIELD_IN_MEMORY_SOURCE, 4, "failed reading source length")

InMemoryBytecode ==
    /\ AtTag(FIELD_IN_MEMORY_BYTECODE)
    /\ LogRead
    /\ SliceField(FIELD_IN_MEMORY_BYTECODE, 4, "failed reading bytecode length")

InMemoryBytecodeOpt1 ==
    /\ AtTag(FIELD_IN_MEMORY_BYTECODE_OPT1)
    /\ LogRead
    /\ SliceField(FIELD_IN_MEMORY_BYTECODE_OPT1, 4,
                  "failed reading bytecode length")

InMemoryBytecodeOpt2 ==
    /\ AtTag(FIELD_IN_MEMORY_BYTECODE_OPT2)
    /\ LogRead
    /\ SliceField(FIELD_IN_MEMORY_BYTECODE_OPT2, 4,
                  "failed reading bytecode length")

InMemoryExtensionModuleSharedLibrary ==
    /\ AtTag(FIELD_IN_MEMORY_EXTENSION_MODULE_SHARED_LIBRARY)
    /\ LogRead
    /\ SliceField(FIELD_IN_MEMORY_EXTENSION_MODULE_SHARED_LIBRARY, 4,
                  "failed reading extension module length")

InMemorySharedLibrary ==
    /\ AtTag(FIELD_IN_MEMORY_SHARED_LIBRARY)
    /\ LogRead
    /\ SliceField(FIELD_IN_MEMORY_SHARED_LIBRARY, 8,
                  "failed reading in-memory shared library length")

(***************************************************************************)
(* The arms with an inner loop.  The loop is a recursive operator; it      *)
(* yields how it ended, the reader position, the cursor and the value.     *)
(* HashMap::with_capacity and Vec::push are taken to succeed.              *)
(***************************************************************************)
Loop(st, e, p, c, v) == [st |-> st, err |-> e, pos |-> p, cur |-> c, val |-> v]

\* HashMap<&str, &[u8]>::insert: a key already present keeps its first slice.
InnerInsert(m, k, v) ==
    LET kc == Content(data, k)
    IN  IF kc \in DOMAIN m
        THEN [m EXCEPT ![kc] = [k |-> m[kc].k, v |-> v]]
        ELSE MapInsert(m, kc, [k |-> k, v |-> v])

RECURSIVE MapLoop(_, _, _, _, _, _)
MapLoop(n, p, c, m, msgName, msgValue) ==
    IF n = 0 THEN Loop("ok", "", p, c, m)
    ELSE IF ~CanRead(data, p, 2) THEN Loop("err", msgName, p, c, m)
    ELSE LET nl == ReadLE(data, p, 2)
         IN  IF ~InBounds(c, nl) THEN Loop("panic", "", p + 2, c, m)
             ELSE IF ~CanRead(data, p + 2, 8)
             THEN Loop("err", msgValue, p + 2, c + nl, m)
             ELSE LET vl == ReadLE(data, p + 2, 8)
                  IN  IF ~InBounds(c + nl, vl)
                      THEN Loop("panic", "", p + 10, c + nl, m)
                      ELSE MapLoop(n - 1, p + 10, c + nl + vl,
                                   InnerInsert(m, Slice(c, nl), Slice(c + nl, vl)),
                                   msgName, msgValue)

RECURSIVE NamesLoop(_, _, _, _)
NamesLoop(n, p, c, names) ==
    IF n = 0 THEN Loop("ok", "", p, c, names)
    ELSE IF ~CanRead(data, p, 2)
    THEN Loop("err", "failed reading shared library dependency name length",
              p, c, names)
    ELSE LET nl == ReadLE(data, p, 2)
         IN  IF ~InBounds(c, nl) THEN Loop("panic", "", p + 2, c, names)
             ELSE NamesLoop(n - 1, p + 2, c + nl, Append(names, Slice(c, nl)))

ResourcesLoop(n, p, c) ==
    MapLoop(n, p, c, EmptyMap, "failed reading resource name",
            "failed reading resource length")

DistributionLoop(n, p, c) ==
    MapLoop(n, p, c, EmptyMap, "failed reading distribution metadata name",
            "failed reading package distribution resource length")

DependencyNamesLoop(n, p, c) == NamesLoop(n, p, c, << >>)

\* The inner loop of the arm of tag t.
RunLoop(t, n, p, c) ==
    IF t = FIELD_IN_MEMORY_RESOURCES_DATA THEN ResourcesLoop(n, p, c)
    ELSE IF t = FIELD_IN_MEMORY_PACKAGE_DISTRIBUTION
    THEN DistributionLoop(n, p, c)
    ELSE DependencyNamesLoop(n, p, c)

\* Mutant: the cursor is where it was before the inner loop.
LoopField_KeepsCursor(t, w, msg) ==
    /\ IF ~CanRead(data, pos + 1, w)
       THEN /\ Fail(msg)
            /\ pos' = pos + 1
            /\ UNCHANGED <<cursor, current_resource>>
       ELSE LET r == RunLoop(t, ReadLE(data, pos + 1, w), pos + 1 + w, cursor[t])
            IN  /\ pos' = r.pos
                /\ IF r.st = "ok"
                   THEN /\ current_resource' = Attach(current_resource, t, r.val)
                        /\ UNCHANGED cursor
                        /\ Goto("walk")
                   ELSE /\ Return(r.st, r.err)
                        /\ UNCHANGED <<cursor, current_resource>>
    /\ UNCHANGED <<hostVars, inputVars, headerVars, blobVars, current_resource_name,
                   index_entry_count, resources, before>>

\* The body of an arm that reads a count of w bytes and then runs its loop.
LoopField(t, w, msg) ==
    /\ IF ~CanRead(data, pos + 1, w)
       THEN /\ Fail(msg)
            /\ pos' = pos + 1
            /\ UNCHANGED <<cursor, current_resource>>
       ELSE LET r == RunLoop(t, ReadLE(data, pos + 1, w), pos + 1 + w, cursor[t])
            IN  /\ pos' = r.pos
                /\ IF r.st = "ok"
                   THEN /\ current_resource' = Attach(current_resource, t, r.val)
                        /\ cursor' = [cursor EXCEPT ![t] = r.cur]
                        /\ Goto("walk")
                   ELSE /\ Return(r.st, r.err)
                        /\ UNCHANGED <<cursor, current_resource>>
    /\ UNCHANGED <<hostVars, inputVars, headerVars, blobVars, current_resource_name,
                   index_entry_count, resources, before>>

InMemoryResourcesData ==
    /\ AtTag(FIELD_IN_MEMORY_RESOURCES_DATA)
    /\ LogRead
    /\ LoopField(FIELD_IN_MEMORY_RESOURCES_DATA, 4,
                 "failed reading resources length")

InMemoryPackageDistribution ==
    /\ AtTag(FIELD_IN_MEMORY_PACKAGE_DISTRIBUTION)
    /\ LogRead
    /\ LoopField(FIELD_IN_MEMORY_PACKAGE_DISTRIBUTION, 4,
                 "failed reading package distribution length")

SharedLibraryDependencyNames ==
    /\ AtTag(FIELD_SHARED_LIBRARY_DEPENDENCY_NAMES)
    /\ LogRead
    /\ LoopField(FIELD_SHARED_LIBRARY_DEPENDENCY_NAMES, 2,
                 "failed reading shared library dependency names length")

\* Mutant: a tag without an arm is passed over.
InvalidFieldType_Skips ==
    /\ pc = "walk"
    /\ CanRead(data, pos, 1)
    /\ data[pos + 1] > FIELD_SHARED_LIBRARY_DEPENDENCY_NAMES
    /\ LogRead
    /\ pos' = pos + 1
    /\ Goto("walk")
    /\ UNCHANGED <<hostVars, inputVars, headerVars, blobVars, cursor, scratchVars,
                   resources, before>>

\* _ => return Err("invalid field type")
InvalidFieldType ==
    /\ pc = "walk"
    /\ CanRead(data, pos, 1)
    /\ data[pos + 1] > FIELD_SHARED_LIBRARY_DEPENDENCY_NAMES
    /\ LogRead
    /\ pos' = pos + 1
    /\ Fail("invalid field type")
    /\ UNCHANGED <<hostVars, inputVars, headerVars, blobVars, cursor, scratchVars,
                   resources, before>>

Next ==
    \/ LoadResources
    \/ ReadFixedHeader
    \/ BlobIndexRecord
    \/ BlobIndexEnd
    \/ InitCursors
    \/ ReadFieldTypeFails
    \/ EndOfIndex
    \/ StartOfEntry
    \/ EndOfEntry
    \/ ModuleName
    \/ IsPackage
    \/ IsNamespacePackage
    \/ InMemorySource
    \/ InMemoryBytecode
    \/ InMemoryBytecodeOpt1
    \/ InMemoryBytecodeOpt2
    \/ InMemoryExtensionModuleSharedLibrary
    \/ InMemoryResourcesData
    \/ InMemoryPackageDistribution
    \/ InMemorySharedLibrary
    \/ SharedLibraryDependencyNames
    \/ InvalidFieldType

Spec == Init /\ [][Next]_vars

\* The call runs on one thread that nothing suspends: its next step is taken.
FairSpec == Init /\ [][Next]_vars /\ WF_vars(Next)

(***************************************************************************)
(* The interpreter's tables.  PyImport_Inittab and PyImport_FrozenModules  *)
(* are arrays of records closed by a record whose name is null; a table is *)
(* the sequence of its names, each the bytes of a C string.                *)
(***************************************************************************)
INITTAB == "PyImport_Inittab"
FROZEN == "PyImport_FrozenModules"

\* A continuation byte of UTF-8.
Cont(b) == b \in 128 .. 191

\* CStr::to_str succeeds: the bytes are well-formed UTF-8.
RECURSIVE Utf8Valid(_)
Utf8Valid(bs) ==
    IF bs = << >> THEN TRUE
    ELSE LET b == bs[1]
             n == Len(bs)
         IN  IF b < 128 THEN Utf8Valid(Tail(bs))
             ELSE IF b \in 194 .. 223
             THEN n >= 2 /\ Cont(bs[2]) /\ Utf8Valid(SubSeq(bs, 3, n))
             ELSE IF b \in 224 .. 239
             THEN /\ n >= 3
                  /\ bs[2] \in (IF b = 224 THEN 160 .. 191
                                ELSE IF b = 237 THEN 128 .. 159
                                ELSE 128 .. 191)
                  /\ Cont(bs[3])
                  /\ Utf8Valid(SubSeq(bs, 4, n))
             ELSE IF b \in 240 .. 244
             THEN /\ n >= 4
                  /\ bs[2] \in (IF b = 240 THEN 144 .. 191
                                ELSE IF b = 244 THEN 128 .. 143
                                ELSE 128 .. 191)
                  /\ Cont(bs[3])
                  /\ Cont(bs[4])
                  /\ Utf8Valid(SubSeq(bs, 5, n))
             ELSE FALSE

\* The &'static str of record i of a table.
TableSlice(tab, i, name) == [buf |-> tab, off |-> i, len |-> Len(name)]

\* The buffer a slice of a load_resources call points into.
BufferOf(s) ==
    IF s.buf = buf_id THEN data
    ELSE IF s.buf \in DOMAIN loaded THEN loaded[s.buf]
    ELSE << >>

\* The bytes a slice denotes.
StrOf(s) ==
    IF s.buf = INITTAB THEN inittab[s.off + 1]
    ELSE IF s.buf = FROZEN THEN frozentab[s.off + 1]
    ELSE Content(BufferOf(s), s)

\* Mutant: the entry of the table replaces the one the catalog has.
Ingest_Replace(m, s, key, flag) ==
    MapInsert(m, key, [DefaultResource EXCEPT !.name = s, ![flag] = TRUE])

\* Mutant: the flag of an existing entry is flipped.
Ingest_Toggle(m, s, key, flag) ==
    IF key \in DOMAIN m
    THEN [m EXCEPT ![key] = [m[key] EXCEPT ![flag] = ~m[key][flag]]]
    ELSE MapInsert(m, key, [DefaultResource EXCEPT !.name = s, ![flag] = TRUE])

\* Mutant: a fresh entry is marked both builtin and frozen.
Ingest_BothFlags(m, s, key, flag) ==
    IF key \in DOMAIN m
    THEN [m EXCEPT ![key] = [m[key] EXCEPT ![flag] = TRUE]]
    ELSE MapInsert(m, key, [DefaultResource EXCEPT !.name = s,
                                                   !.is_builtin = TRUE,
                                                   !.is_frozen = TRUE])

\* if let Some(entry) = resources.get_mut(name_str) { entry.<flag> = true }
\* else { resources.insert(name_str, EmbeddedResource { name, <flag>: true,
\* ..default() }) }
Ingest(m, s, key, flag) ==
    IF key \in DOMAIN m
    THEN [m EXCEPT ![key] = [m[key] EXCEPT ![flag] = TRUE]]
    ELSE MapInsert(m, key, [DefaultResource EXCEPT !.name = s, ![flag] = TRUE])

decoderVars == <<pos, headerVars, blobVars, cursor, scratchVars, walkLog>>
callerVars == <<buf_id, loaded, inittab, frozentab, op, step, calls, hist,
                once, answer>>

\* Mutant: a name that is not UTF-8 is skipped and the loop goes on.
TableRecord_SkipsBadName(tabname, tab, flag, msg) ==
    /\ pc = "table"
    /\ tab_i < Len(tab)
    /\ LET name == tab[tab_i + 1]
       IN  /\ resources' = IF ~Utf8Valid(name) THEN resources
                           ELSE Ingest(resources,
                                       TableSlice(tabname, tab_i, name),
                                       name, flag)
           /\ tab_i' = tab_i + 1
           /\ Goto("table")
    /\ UNCHANGED <<callerVars, inputVars, decoderVars, before>>

\* One iteration of the loop of an ingester over its table.
TableRecord(tabname, tab, flag, msg) ==
    /\ pc = "table"
    /\ tab_i < Len(tab)
    /\ LET name == tab[tab_i + 1]
       IN  IF ~Utf8Valid(name)
           THEN /\ Fail(msg)
                /\ UNCHANGED <<resources, tab_i>>
           ELSE /\ resources' = Ingest(resources,
                                       TableSlice(tabname, tab_i, name),
                                       name, flag)
                /\ tab_i' = tab_i + 1
                /\ Goto("table")
    /\ UNCHANGED <<callerVars, inputVars, decoderVars, before>>

\* The record whose name is null: break, Ok(()).
TableEnd(tab) ==
    /\ pc = "table"
    /\ tab_i >= Len(tab)
    /\ Ok
    /\ UNCHANGED <<callerVars, inputVars, decoderVars, before, resources,
                   tab_i>>

(***************************************************************************)
(* load_interpreter_builtin_modules and load_interpreter_frozen_modules.   *)
(***************************************************************************)
BuiltinModule ==
    /\ step = "builtins"
    /\ TableRecord(INITTAB, inittab, "is_builtin",
                   "unable to parse PyImport_Inittab")

BuiltinTableEnd == step = "builtins" /\ TableEnd(inittab)

FrozenModule ==
    /\ step = "frozen"
    /\ TableRecord(FROZEN, frozentab, "is_frozen",
                   "unable to parse PyImport_FrozenModules")

FrozenTableEnd == step = "frozen" /\ TableEnd(frozentab)

(***************************************************************************)
(* load: load_resources(resources_data)?, then                             *)
(* load_interpreter_builtin_modules()?, then                               *)
(* load_interpreter_frozen_modules()?.                                     *)
(***************************************************************************)
\* An ingester starts: its loop is at record 0.
StartTable(s) ==
    /\ step' = s
    /\ pc' = "table"
    /\ tab_i' = 0
    /\ result' = "none"
    /\ err' = ""
    /\ before' = resources
    /\ hist' = Append(hist, s)

LoadCallsBuiltins ==
    /\ op = "load"
    /\ step = "load_resources"
    /\ pc = "done"
    /\ result = "ok"
    /\ StartTable("builtins")
    /\ UNCHANGED <<buf_id, loaded, inittab, frozentab, op, calls, once, answer,
                   inputVars, decoderVars, resources>>

\* Mutant: the frozen table is ingested whatever the builtin step returned.
LoadCallsFrozen_IgnoresError ==
    /\ op = "load"
    /\ step = "builtins"
    /\ pc = "done"
    /\ result \in {"ok", "err"}
    /\ StartTable("frozen")
    /\ UNCHANGED <<buf_id, loaded, inittab, frozentab, op, calls, once, answer,
                   inputVars, decoderVars, resources>>

LoadCallsFrozen ==
    /\ op = "load"
    /\ step = "builtins"
    /\ pc = "done"
    /\ result = "ok"
    /\ StartTable("frozen")
    /\ UNCHANGED <<buf_id, loaded, inittab, frozentab, op, calls, once, answer,
                   inputVars, decoderVars, resources>>

(***************************************************************************)
(* The caller.  It owns a PythonImporterState and calls load_resources and  *)
(* the two ingesters on it, one call after the other returned, as load and *)
(* the tests of the module do; load itself is called on the fresh state.   *)
(***************************************************************************)
MaxCalls == 4
MaxLoads == 2

\* The function the caller invoked has returned.
Returned ==
    /\ pc = "done"
    /\ op = "load" => (result # "ok" \/ step = "frozen")

\* The caller can make a call: no call is running and none has panicked.
Idle ==
    /\ pc = "idle" \/ (Returned /\ result # "panic")
    /\ calls < MaxCalls

\* The buffers handed over so far.
LoadsMade == Cardinality(DOMAIN loaded) + (IF family = "none" THEN 0 ELSE 1)

\* The name of the buffer handed over by call n.
BufName(n) == <<"data", "data2", "data3", "data4", "data5">>[n]

\* The locals of load_resources and load_resources_v1 at their entry.
EnterLoadResources(inp) ==
    /\ data' = inp.data
    /\ family' = inp.family
    /\ entries' = inp.entries
    /\ tokens' = inp.tokens
    /\ buf_id' = IF family = "none" THEN buf_id ELSE BufName(calls + 1)
    /\ loaded' = IF family = "none" THEN loaded
                 ELSE MapInsert(loaded, buf_id, data)
    /\ step' = "load_resources"
    /\ pc' = "start"
    /\ result' = "none"
    /\ err' = ""
    /\ pos' = 0
    /\ blob_section_count' = 0
    /\ blob_index_length' = 0
    /\ resources_count' = 0
    /\ resources_index_length' = 0
    /\ blob_i' = 0
    /\ total_blob_offset' = 0
    /\ start_offset' = [f \in PayloadTags |-> 0]
    /\ cursor' = [f \in PayloadTags |-> 0]
    /\ current_resource' = DefaultResource
    /\ current_resource_name' = None
    /\ index_entry_count' = 0
    /\ walk_reads' = << >>
    /\ last_tag' = -1
    /\ order' = << >>
    /\ before' = resources
    /\ tab_i' = 0
    /\ hist' = << >>
    /\ once' = None
    /\ answer' = None
    /\ calls' = calls + 1
    /\ UNCHANGED <<resources, inittab, frozentab>>

\* The catalog after the first round of the two ingesters, kept when the
\* next round starts.
KeepOnce ==
    once' = IF once = None /\ hist = <<"builtins", "frozen">>
            THEN Some(resources)
            ELSE once

EnterTable(s) ==
    /\ op' = s
    /\ StartTable(s)
    /\ KeepOnce
    /\ answer' = None
    /\ calls' = calls + 1
    /\ UNCHANGED <<buf_id, loaded, inittab, frozentab, inputVars, decoderVars,
                   resources>>

(***************************************************************************)
(* The buffers and tables the caller works with.                           *)
(***************************************************************************)
NameZ == <<122>>
NameAccent == <<195, 169>>
NameBad == <<255>>

\* Pairs of tables: empty, names with and without a catalog entry, a name
\* in both tables, a name twice, and names that are not UTF-8.
HostTables ==
    { [inittab |-> << >>, frozentab |-> << >>],
      [inittab |-> <<NameA, NameZ>>, frozentab |-> <<NameZ, NameA, NameB>>],
      [inittab |-> <<NameZ, NameBad, NameA>>, frozentab |-> <<NameA>>],
      [inittab |-> <<NameBad>>, frozentab |-> <<NameA, NameBad, NameZ>>],
      [inittab |-> <<NameAccent>>, frozentab |-> <<NameA, NameA>>] }

\* The entry of OwnedShapes with every field set.
OwnedFull(nm) ==
    CHOOSE e \in OwnedShapes(nm) :
        e.is_package /\ e.in_memory_shared_library # None

PlainHeader == [rc |-> 1, ril0 |-> FALSE, bil0 |-> FALSE, cut |-> 0]

\* A written catalog with every field; an entry followed by an unknown field
\* type; an entry with two MODULE_NAME fields; an index that stops short.
LoadBuffers ==
    { InputOf("writer", <<OwnedFull(NameA)>>),
      InputOf("walk",
              << <<Flag(FIELD_START_OF_ENTRY),
                   Tok(FIELD_MODULE_NAME, 0, <<NameA>>),
                   Flag(FIELD_END_OF_ENTRY), Flag(15)>>, PlainHeader >>),
      InputOf("walk",
              << <<Flag(FIELD_START_OF_ENTRY),
                   Tok(FIELD_MODULE_NAME, 0, <<NameA>>),
                   Tok(FIELD_MODULE_NAME, 0, <<NameB>>),
                   Tok(FIELD_IN_MEMORY_SOURCE, 0, <<DataX>>),
                   Flag(FIELD_END_OF_ENTRY), Flag(FIELD_END_OF_INDEX)>>,
                 PlainHeader >>),
      InputOf("walk", << <<Flag(FIELD_START_OF_ENTRY)>>, PlainHeader >>) }

\* PythonImporterState::default(), and the tables of the interpreter.
LoadInit ==
    /\ \E t \in HostTables :
          /\ inittab = t.inittab
          /\ frozentab = t.frozentab
    /\ buf_id = "data"
    /\ loaded = EmptyMap
    /\ data = << >>
    /\ family = "none"
    /\ entries = << >>
    /\ tokens = << >>
    /\ op = "none"
    /\ step = "none"
    /\ tab_i = 0
    /\ calls = 0
    /\ hist = << >>
    /\ once = None
    /\ answer = None
    /\ pc = "idle"
    /\ result = "none"
    /\ err = ""
    /\ pos = 0
    /\ blob_section_count = 0
    /\ blob_index_length = 0
    /\ resources_count = 0
    /\ resources_index_length = 0
    /\ blob_i = 0
    /\ total_blob_offset = 0
    /\ start_offset = [f \in PayloadTags |-> 0]
    /\ cursor = [f \in PayloadTags |-> 0]
    /\ current_resource = DefaultResource
    /\ current_resource_name = None
    /\ index_entry_count = 0
    /\ resources = EmptyMap
    /\ before = EmptyMap
    /\ walk_reads = << >>
    /\ last_tag = -1
    /\ order = << >>

CallLoad ==
    /\ Idle
    /\ calls = 0
    /\ op' = "load"
    /\ \E inp \in LoadBuffers : EnterLoadResources(inp)

CallLoadResources ==
    /\ Idle
    /\ LoadsMade < MaxLoads
    /\ op' = "load_resources"
    /\ \E inp \in LoadBuffers : EnterLoadResources(inp)

CallBuiltins == Idle /\ EnterTable("builtins")

CallFrozen == Idle /\ EnterTable("frozen")

LoadNext ==
    \/ Next
    \/ CallLoad
    \/ CallLoadResources
    \/ CallBuiltins
    \/ CallFrozen
    \/ LoadCallsBuiltins
    \/ LoadCallsFrozen
    \/ BuiltinModule
    \/ BuiltinTableEnd
    \/ FrozenModule
    \/ FrozenTableEnd

LoadSpec == LoadInit /\ [][LoadNext]_vars

(***************************************************************************)
(* EmbeddedResource::uses_pyembed_importer, and a caller that asks it      *)
(* about an entry.                                                         *)
(***************************************************************************)
\* Mutant: an entry with source is imported by this importer as well.
uses_pyembed_importer_OrSource(r) ==
    \/ r.in_memory_source # None
    \/ r.in_memory_bytecode # None
    \/ r.in_memory_bytecode_opt1 # None
    \/ r.in_memory_bytecode_opt2 # None
    \/ r.in_memory_shared_library_extension_module # None

uses_pyembed_importer(r) ==
    \/ r.in_memory_bytecode # None
    \/ r.in_memory_bytecode_opt1 # None
    \/ r.in_memory_bytecode_opt2 # None
    \/ r.in_memory_shared_library_extension_module # None

\* The Option fields of EmbeddedResource, and its flags.
PayloadFields ==
    {"in_memory_source", "in_memory_bytecode", "in_memory_bytecode_opt1",
     "in_memory_bytecode_opt2", "in_memory_shared_library_extension_module",
     "in_memory_resources", "in_memory_package_distribution",
     "in_memory_shared_library", "shared_library_dependency_names"}

FlagFields == {"is_package", "is_namespace_package", "is_builtin", "is_frozen"}

\* A value for a field that is present.
SomeValue(f) ==
    IF f \in {"in_memory_resources", "in_memory_package_distribution"}
    THEN Some(EmptyMap)
    ELSE IF f = "shared_library_dependency_names" THEN Some(<< >>)
    ELSE Some([buf |-> "data", off |-> 0, len |-> 1])

\* The entry whose present fields are P and whose true flags are F.
EntryWith(P, F) ==
    [f \in {"name"} \cup FlagFields \cup PayloadFields |->
        IF f = "name" THEN [buf |-> "data", off |-> 0, len |-> 0]
        ELSE IF f \in FlagFields THEN f \in F
        ELSE IF f \in P THEN SomeValue(f)
        ELSE None]

\* An entry, with every combination of present fields and flags.
QueryInit ==
    /\ \E P \in SUBSET PayloadFields :
          \E F \in SUBSET FlagFields :
              current_resource = EntryWith(P, F)
    /\ pc = "query"
    /\ op = "uses_pyembed_importer"
    /\ step = "uses_pyembed_importer"
    /\ answer = None
    /\ inittab = << >>
    /\ frozentab = << >>
    /\ buf_id = "data"
    /\ loaded = EmptyMap
    /\ data = << >>
    /\ family = "none"
    /\ entries = << >>
    /\ tokens = << >>
    /\ tab_i = 0
    /\ calls = 0
    /\ hist = << >>
    /\ once = None
    /\ result = "none"
    /\ err = ""
    /\ pos = 0
    /\ blob_section_count = 0
    /\ blob_index_length = 0
    /\ resources_count = 0
    /\ resources_index_length = 0
    /\ blob_i = 0
    /\ total_blob_offset = 0
    /\ start_offset = [f \in PayloadTags |-> 0]
    /\ cursor = [f \in PayloadTags |-> 0]
    /\ current_resource_name = None
    /\ index_entry_count = 0
    /\ resources = EmptyMap
    /\ before = EmptyMap
    /\ walk_reads = << >>
    /\ last_tag = -1
    /\ order = << >>

UsesPyembedImporter ==
    /\ pc = "query"
    /\ answer' = Some(uses_pyembed_importer(current_resource))
    /\ pc' = "done"
    /\ calls' = calls + 1
    /\ UNCHANGED <<buf_id, loaded, inittab, frozentab, op, step, tab_i, hist,
                   once, inputVars, decoderVars, resources, before, result,
                   err>>

QueryNext == UsesPyembedImporter

QuerySpec == QueryInit /\ [][QueryNext]_vars

(***************************************************************************)
(* What a buffer says, read off its bytes without running the decoder.     *)
(***************************************************************************)
HasMagic(d) == Len(d) >= 8 /\ SubSeq(d, 1, 8) = RESOURCES_HEADER_V1

HasFixedHeader(d) == HasMagic(d) /\ Len(d) >= 21

HeaderBlobSectionCount(d) == d[9]
HeaderBlobIndexLength(d) == FromLE(SubSeq(d, 10, 13))
HeaderResourcesCount(d) == FromLE(SubSeq(d, 14, 17))
HeaderResourcesIndexLength(d) == FromLE(SubSeq(d, 18, 21))

\* The blob-section index is skipped, or holds blob_section_count records
\* with payload tags and then END_OF_INDEX.
BlobIndexValid(d) ==
    \/ HeaderBlobIndexLength(d) = 0
    \/ LET n == HeaderBlobSectionCount(d)
       IN  /\ Len(d) >= 21 + 9 * n + 1
           /\ \A i \in 0 .. n - 1 : d[21 + 9 * i + 1] \in PayloadTags
           /\ d[21 + 9 * n + 1] = FIELD_END_OF_INDEX

\* The tags the per-entry loop has read so far, in order.
TagsRead == [i \in 1 .. Len(walk_reads) |-> data[walk_reads[i] + 1]]

Done == pc = "done"

(***************************************************************************)
(* C7: a buffer shorter than 8 bytes (the empty one included) makes        *)
(* load_resources return "error reading 8 byte header"; the catalog is     *)
(* left as it was and the version-1 decoder is not entered.                *)
(***************************************************************************)
C7_ShortHeader ==
    Len(data) < 8 =>
        /\ pc \in {"start", "done"}
        /\ Done => /\ result = "err"
                   /\ err = "error reading 8 byte header"
                   /\ resources = before

C7_Witness == Done /\ data = <<102, 111, 111>>

(***************************************************************************)
(* C8: a buffer of 8 bytes or more whose first 8 bytes are not "pyembed"   *)
(* followed by 0x01 makes load_resources return "unrecognized file         *)
(* format"; the version-1 decoder is not entered, the catalog is left as   *)
(* it was.                                                                 *)
(***************************************************************************)
C8_UnrecognizedFormat ==
    (Len(data) >= 8 /\ ~HasMagic(data)) =>
        /\ pc \in {"start", "done"}
        /\ Done => /\ result = "err"
                   /\ err = "unrecognized file format"
                   /\ pos = 0
                   /\ resources = before

C8_Witness ==
    /\ Done
    /\ Len(data) > 8
    /\ SubSeq(data, 1, 7) = SubSeq(RESOURCES_HEADER_V1, 1, 7)
    /\ data[8] = 2

(***************************************************************************)
(* C9: with a valid magic, a readable fixed header and a valid or skipped  *)
(* blob-section index, resources_index_length = 0 or resources_count = 0   *)
(* makes load_resources return Ok without reading any per-entry record    *)
(* and without adding an entry, whatever bytes follow.                     *)
(***************************************************************************)
C9_EmptyIndexReturnsOk ==
    (/\ Done
     /\ HasFixedHeader(data)
     /\ BlobIndexValid(data)
     /\ \/ HeaderResourcesIndexLength(data) = 0
        \/ HeaderResourcesCount(data) = 0)
    => /\ result = "ok"
       /\ walk_reads = << >>
       /\ resources = before

\* A count of zero in front of a per-entry index that holds an entry.
C9_Witness ==
    /\ Done
    /\ result = "ok"
    /\ HasFixedHeader(data)
    /\ HeaderResourcesCount(data) = 0
    /\ HeaderResourcesIndexLength(data) > 0
    /\ \E i \in 1 .. Len(tokens) : tokens[i].tag = FIELD_END_OF_ENTRY

(***************************************************************************)
(* C10: in the per-entry walk, an END_OF_ENTRY read when no MODULE_NAME    *)
(* was read since the most recent START_OF_ENTRY or END_OF_ENTRY makes     *)
(* load_resources return "resource name field is required" and inserts     *)
(* nothing.                                                                *)
(***************************************************************************)
\* Some START_OF_ENTRY or END_OF_ENTRY was read, and no MODULE_NAME after
\* the last of them.
NoNameSinceMarker ==
    \E i \in 1 .. Len(TagsRead) :
        /\ TagsRead[i] \in {FIELD_START_OF_ENTRY, FIELD_END_OF_ENTRY}
        /\ \A j \in i + 1 .. Len(TagsRead) :
              TagsRead[j] \notin {FIELD_START_OF_ENTRY, FIELD_END_OF_ENTRY,
                                  FIELD_MODULE_NAME}

C10_NameRequired ==
    [][(AtTag(FIELD_END_OF_ENTRY) /\ NoNameSinceMarker)
         => /\ pc' = "done"
            /\ result' = "err"
            /\ err' = "resource name field is required"
            /\ resources' = resources]_vars

\* An entry was committed, and the END_OF_ENTRY after it found no name.
C10_Witness ==
    /\ Done
    /\ err = "resource name field is required"
    /\ resources # EmptyMap
    /\ last_tag = FIELD_END_OF_ENTRY

(***************************************************************************)
(* C1: round trip.  The writer's output for entries with pairwise distinct *)
(* names loads, on an empty catalog, to one catalog entry per input entry, *)
(* equal to it field by field.                                             *)
(***************************************************************************)
OptContent(o) == IF o = None THEN None ELSE Some(Content(data, o[1]))

\* A decoded entry as a value: every slice replaced by its content.
EntryValue(r) ==
    [name |-> Content(data, r.name),
     is_package |-> r.is_package,
     is_namespace_package |-> r.is_namespace_package,
     is_builtin |-> r.is_builtin,
     is_frozen |-> r.is_frozen,
     in_memory_source |-> OptContent(r.in_memory_source),
     in_memory_bytecode |-> OptContent(r.in_memory_bytecode),
     in_memory_bytecode_opt1 |-> OptContent(r.in_memory_bytecode_opt1),
     in_memory_bytecode_opt2 |-> OptContent(r.in_memory_bytecode_opt2),
     in_memory_shared_library_extension_module |->
         OptContent(r.in_memory_shared_library_extension_module),
     in_memory_resources |->
         IF r.in_memory_resources = None THEN None
         ELSE LET m == r.in_memory_resources[1]
              IN  Some([k \in {Content(data, m[x].k) : x \in DOMAIN m} |->
                           Content(data, m[k].v)]),
     in_memory_package_distribution |->
         IF r.in_memory_package_distribution = None THEN None
         ELSE LET m == r.in_memory_package_distribution[1]
              IN  Some([k \in {Content(data, m[x].k) : x \in DOMAIN m} |->
                           Content(data, m[k].v)]),
     in_memory_shared_library |-> OptContent(r.in_memory_shared_library),
     shared_library_dependency_names |->
         IF r.shared_library_dependency_names = None THEN None
         ELSE LET ns == r.shared_library_dependency_names[1]
              IN  Some([i \in 1 .. Len(ns) |-> Content(data, ns[i])])]

PairsValue(o) ==
    IF o = None THEN None
    ELSE LET kvs == o[1]
         IN  Some([k \in {kvs[i][1] : i \in 1 .. Len(kvs)} |->
                      (CHOOSE kv \in {kvs[i] : i \in 1 .. Len(kvs)} : kv[1] = k)[2]])

\* The entry the writer was given, in the shape of EntryValue.
OwnedValue(e) ==
    [name |-> e.name,
     is_package |-> e.is_package,
     is_namespace_package |-> e.is_namespace_package,
     is_builtin |-> FALSE,
     is_frozen |-> FALSE,
     in_memory_source |-> e.in_memory_source,
     in_memory_bytecode |-> e.in_memory_bytecode,
     in_memory_bytecode_opt1 |-> e.in_memory_bytecode_opt1,
     in_memory_bytecode_opt2 |-> e.in_memory_bytecode_opt2,
     in_memory_shared_library_extension_module |->
         e.in_memory_extension_module_shared_library,
     in_memory_resources |-> PairsValue(e.in_memory_resources),
     in_memory_package_distribution |->
         PairsValue(e.in_memory_package_distribution),
     in_memory_shared_library |-> e.in_memory_shared_library,
     shared_library_dependency_names |-> e.shared_library_dependency_names]

C1_RoundTrip ==
    (Done /\ family = "writer" /\ DistinctNames(entries)) =>
        /\ result = "ok"
        /\ DOMAIN resources = {entries[i].name : i \in 1 .. Len(entries)}
        /\ Cardinality(DOMAIN resources) = Len(entries)
        /\ \A i \in 1 .. Len(entries) :
              EntryValue(resources[entries[i].name]) = OwnedValue(entries[i])

\* Two entries were written and loaded, the second with every field set.
C1_Witness ==
    /\ Done
    /\ result = "ok"
    /\ family = "writer"
    /\ Len(entries) = 2
    /\ DistinctNames(entries)
    /\ entries[1].in_memory_source # None
    /\ entries[2].in_memory_source # None
    /\ entries[2].in_memory_resources # None
    /\ entries[2].shared_library_dependency_names # None

(***************************************************************************)
(* The per-entry index as the tokens describe it: what a reader of the     *)
(* format expects of it, computed without the decoder.                     *)
(***************************************************************************)
\* The tokens describe what the per-entry loop reads.
Aligned == family \in {"writer", "walk"}

\* The tokens the per-entry loop has read.
ReadTokens ==
    SubSeq(tokens, 1, IF Len(walk_reads) < Len(tokens)
                      THEN Len(walk_reads) ELSE Len(tokens))

RECURSIVE FirstIndex(_)
\* The tokens up to the first END_OF_INDEX (without it).
FirstIndex(ts) ==
    IF ts = << >> \/ Head(ts).tag = FIELD_END_OF_INDEX THEN << >>
    ELSE <<Head(ts)>> \o FirstIndex(Tail(ts))

Terminated(ts) == \E i \in 1 .. Len(ts) : ts[i].tag = FIELD_END_OF_INDEX

CountTag(ts, t) == Cardinality({i \in 1 .. Len(ts) : ts[i].tag = t})

\* The END_OF_ENTRY records that close the most recent START_OF_ENTRY.
BracketedEntries(ts) ==
    Cardinality({j \in 1 .. Len(ts) :
        /\ ts[j].tag = FIELD_END_OF_ENTRY
        /\ \E i \in 1 .. j - 1 :
              /\ ts[i].tag = FIELD_START_OF_ENTRY
              /\ \A k \in i + 1 .. j - 1 :
                    ts[k].tag \notin {FIELD_START_OF_ENTRY, FIELD_END_OF_ENTRY}})

\* Every END_OF_ENTRY has a MODULE_NAME since the START_OF_ENTRY or
\* END_OF_ENTRY before it (or since the beginning).
EveryEntryNamed(ts) ==
    \A j \in 1 .. Len(ts) :
        ts[j].tag = FIELD_END_OF_ENTRY =>
            \E i \in 1 .. j - 1 :
                /\ ts[i].tag = FIELD_MODULE_NAME
                /\ \A k \in i + 1 .. j - 1 :
                      ts[k].tag \notin {FIELD_START_OF_ENTRY, FIELD_END_OF_ENTRY}

RecognizedTags(ts) ==
    \A i \in 1 .. Len(ts) : ts[i].tag <= FIELD_SHARED_LIBRARY_DEPENDENCY_NAMES

\* The names under which the tokens ts commit an entry.
RECURSIVE CommittedNames(_, _)
CommittedNames(ts, nm) ==
    IF ts = << >> THEN {}
    ELSE LET t == Head(ts).tag
         IN  CASE t = FIELD_END_OF_INDEX -> {}
               [] t > FIELD_SHARED_LIBRARY_DEPENDENCY_NAMES -> {}
               [] t = FIELD_START_OF_ENTRY -> CommittedNames(Tail(ts), None)
               [] t = FIELD_MODULE_NAME ->
                     CommittedNames(Tail(ts), Some(Head(ts).parts[1]))
               [] t = FIELD_END_OF_ENTRY ->
                     IF nm = None THEN {}
                     ELSE {nm[1]} \cup CommittedNames(Tail(ts), None)
               [] OTHER -> CommittedNames(Tail(ts), nm)

\* A sequence of entries, each START_OF_ENTRY, one MODULE_NAME, END_OF_ENTRY,
\* with pairwise distinct names, and then END_OF_INDEX.
RECURSIVE WellFormedIndex(_, _, _)
WellFormedIndex(ts, st, names) ==
    IF ts = << >> THEN FALSE
    ELSE LET t == Head(ts).tag
         IN  CASE t = FIELD_END_OF_INDEX -> st = "out"
               [] t > FIELD_SHARED_LIBRARY_DEPENDENCY_NAMES -> FALSE
               [] t = FIELD_START_OF_ENTRY ->
                     st = "out" /\ WellFormedIndex(Tail(ts), "unnamed", names)
               [] t = FIELD_MODULE_NAME ->
                     /\ st = "unnamed"
                     /\ Head(ts).parts[1] \notin names
                     /\ WellFormedIndex(Tail(ts), "named",
                                        names \cup {Head(ts).parts[1]})
               [] t = FIELD_END_OF_ENTRY ->
                     st = "named" /\ WellFormedIndex(Tail(ts), "out", names)
               [] OTHER -> st # "out" /\ WellFormedIndex(Tail(ts), st, names)

(***************************************************************************)
(* The class of buffers C2 is about: a valid magic, fixed header and       *)
(* blob-section index; a per-entry index of whole records with recognized  *)
(* tags, in which every END_OF_ENTRY finds a name; and no slice out of     *)
(* bounds (no slice extraction panicked).                                  *)
(***************************************************************************)
C2_Class ==
    /\ Done
    /\ Aligned
    /\ HasFixedHeader(data)
    /\ BlobIndexValid(data)
    /\ RecognizedTags(FirstIndex(tokens))
    /\ EveryEntryNamed(FirstIndex(tokens))
    /\ result # "panic"

(***************************************************************************)
(* C2 as stated: for a buffer of the class, load_resources succeeds if and *)
(* only if the number of entries bracketed by a START_OF_ENTRY /           *)
(* END_OF_ENTRY pair equals the header's resources_count.                  *)
(***************************************************************************)
C2_CountIntegrity ==
    C2_Class =>
        (result = "ok" <=>
            BracketedEntries(FirstIndex(tokens)) = HeaderResourcesCount(data))

(***************************************************************************)
(* C2 as amended: for a buffer of the class, load_resources succeeds if    *)
(* and only if resources_count = 0, or resources_index_length = 0, or the  *)
(* per-entry index ends with END_OF_INDEX and the number of START_OF_ENTRY *)
(* records before it equals resources_count.                               *)
(***************************************************************************)
C2_StartCountIntegrity ==
    C2_Class =>
        (result = "ok" <=>
            \/ HeaderResourcesCount(data) = 0
            \/ HeaderResourcesIndexLength(data) = 0
            \/ /\ Terminated(tokens)
               /\ CountTag(FirstIndex(tokens), FIELD_START_OF_ENTRY)
                     = HeaderResourcesCount(data))

\* A terminated index with two START_OF_ENTRY records, only one of them closed
\* by END_OF_ENTRY, is accepted under a header that advertises two entries.
C2_Witness ==
    /\ C2_Class
    /\ result = "ok"
    /\ HeaderResourcesIndexLength(data) > 0
    /\ HeaderResourcesCount(data) = 2
    /\ Terminated(tokens)
    /\ CountTag(FirstIndex(tokens), FIELD_START_OF_ENTRY) = 2
    /\ BracketedEntries(FirstIndex(tokens)) = 1

(***************************************************************************)
(* C3 as stated: after a successful load_resources on an empty catalog,    *)
(* the catalog has resources_count entries.                                *)
(***************************************************************************)
C3_CountEqualsHeader ==
    (Done /\ result = "ok" /\ before = EmptyMap) =>
        Cardinality(DOMAIN resources) = HeaderResourcesCount(data)

(***************************************************************************)
(* C3 as amended: after a successful load_resources on an empty catalog,   *)
(* the catalog has resources_count entries, provided                       *)
(* resources_index_length > 0 and the per-entry index is a sequence of     *)
(* entries, each opened by START_OF_ENTRY, named by one MODULE_NAME and    *)
(* closed by END_OF_ENTRY, with pairwise distinct names, and then          *)
(* END_OF_INDEX.                                                           *)
(***************************************************************************)
C3_CountOfWellFormedIndex ==
    (/\ Done
     /\ result = "ok"
     /\ before = EmptyMap
     /\ Aligned
     /\ HeaderResourcesIndexLength(data) > 0
     /\ WellFormedIndex(tokens, "out", {}))
    => Cardinality(DOMAIN resources) = HeaderResourcesCount(data)

C3_Witness ==
    /\ Done
    /\ result = "ok"
    /\ family = "walk"
    /\ HeaderResourcesIndexLength(data) > 0
    /\ WellFormedIndex(tokens, "out", {})
    /\ Cardinality(DOMAIN resources) = 2

(***************************************************************************)
(* C4: a length prefix that makes cursor + length exceed the buffer makes  *)
(* load_resources return an error: the call never panics.                  *)
(***************************************************************************)
C4_NoPanic == result # "panic"

(***************************************************************************)
(* C5: zero-copy range.  After a successful load_resources every slice of  *)
(* every entry of the catalog (name, payloads, keys and values of the two  *)
(* maps, dependency names) is a region [off, off + len) of the buffer with *)
(* off + len <= its length.                                                *)
(***************************************************************************)
InBuffer(s) == s.buf = "data" /\ s.off >= 0 /\ s.len >= 0
               /\ s.off + s.len <= Len(data)

OptSlices(o) == {o[i] : i \in 1 .. Len(o)}

MapSlices(o) ==
    IF o = None THEN {}
    ELSE UNION {{o[1][k].k, o[1][k].v} : k \in DOMAIN o[1]}

EntrySlices(r) ==
    {r.name}
    \cup OptSlices(r.in_memory_source)
    \cup OptSlices(r.in_memory_bytecode)
    \cup OptSlices(r.in_memory_bytecode_opt1)
    \cup OptSlices(r.in_memory_bytecode_opt2)
    \cup OptSlices(r.in_memory_shared_library_extension_module)
    \cup MapSlices(r.in_memory_resources)
    \cup MapSlices(r.in_memory_package_distribution)
    \cup OptSlices(r.in_memory_shared_library)
    \cup (IF r.shared_library_dependency_names = None THEN {}
          ELSE OptSlices(r.shared_library_dependency_names[1]))

C5_ZeroCopy ==
    (Done /\ result = "ok") =>
        \A k \in DOMAIN resources :
            \A s \in EntrySlices(resources[k]) : InBuffer(s)

\* An entry with a payload of every kind was decoded, its last slice ending
\* at the end of the buffer.
C5_Witness ==
    /\ Done
    /\ result = "ok"
    /\ \E k \in DOMAIN resources :
          /\ Cardinality(EntrySlices(resources[k])) >= 12
          /\ \E s \in EntrySlices(resources[k]) :
                s.len > 0 /\ s.off + s.len = Len(data)

(***************************************************************************)
(* C6 as stated, its error half: a call that returns an error has          *)
(* committed nothing, the catalog is the one before the call.              *)
(***************************************************************************)
C6_ErrorLeavesCatalogUnchanged ==
    (Done /\ result = "err") => resources = before

(***************************************************************************)
(* C6 as amended: the call ends in Ok, in an error or in a panic of a      *)
(* slice out of bounds, and in each case the catalog is the one before the *)
(* call with exactly the entries added whose END_OF_ENTRY the walk read    *)
(* with a name set: none when the call ends before the walk (a header or   *)
(* blob-section index error, or the early Ok), and the entries committed   *)
(* so far, not rolled back, when an error ends the walk.                   *)
(***************************************************************************)
C6_CommittedEntriesStay ==
    Done =>
        /\ result \in {"ok", "err", "panic"}
        /\ (\A i \in 1 .. Len(TagsRead) : TagsRead[i] # FIELD_END_OF_ENTRY)
              => resources = before
        /\ Aligned =>
              /\ \A i \in 1 .. Len(ReadTokens) : ReadTokens[i].tag = TagsRead[i]
              /\ DOMAIN resources =
                    DOMAIN before \cup CommittedNames(ReadTokens, None)

\* An error ended the walk after an entry was committed.
C6_Witness ==
    /\ Done
    /\ result = "err"
    /\ Aligned
    /\ resources # before
    /\ CommittedNames(ReadTokens, None) # {}

(***************************************************************************)
(* C11: when the per-entry walk (entered only with resources_count > 0 and *)
(* resources_index_length > 0) reads END_OF_INDEX, load_resources returns  *)
(* Ok if the number of START_OF_ENTRY records read equals resources_count, *)
(* and the error "mismatch between advertised index count and actual"      *)
(* otherwise.                                                              *)
(***************************************************************************)
\* The walk has ended by reading END_OF_INDEX.
WalkReachedEndOfIndex ==
    /\ Done
    /\ walk_reads # << >>
    /\ TagsRead[Len(walk_reads)] = FIELD_END_OF_INDEX

\* The START_OF_ENTRY records the walk has read.
StartsRead ==
    Cardinality({i \in 1 .. Len(walk_reads) :
                    TagsRead[i] = FIELD_START_OF_ENTRY})

C11_CountCheck ==
    WalkReachedEndOfIndex =>
        /\ HeaderResourcesCount(data) > 0
        /\ HeaderResourcesIndexLength(data) > 0
        /\ IF StartsRead = HeaderResourcesCount(data)
           THEN result = "ok"
           ELSE /\ result = "err"
                /\ err = "mismatch between advertised index count and actual"

\* Two entries were read under a header that advertises one.
C11_Witness ==
    /\ WalkReachedEndOfIndex
    /\ StartsRead = 2
    /\ HeaderResourcesCount(data) = 1
    /\ Cardinality(DOMAIN resources) = 2
    /\ err = "mismatch between advertised index count and actual"

(***************************************************************************)
(* C12: load runs load_resources, then the builtin ingestion, then the     *)
(* frozen ingestion.  A call of load starts with load_resources; a later   *)
(* step starts only when the step before it has returned Ok, and it is the *)
(* next one in that order; once a step has returned an error (or has       *)
(* panicked) nothing more happens in that call: load has returned what the *)
(* step returned.                                                          *)
(***************************************************************************)
C12_LoadOrder ==
    [][ /\ (op' = "load" /\ calls' # calls) =>
              (step' = "load_resources" /\ pc' = "start")
        /\ (op = "load" /\ calls' = calls /\ step' # step) =>
              /\ pc = "done"
              /\ result = "ok"
              /\ <<step, step'>> \in {<<"load_resources", "builtins">>,
                                      <<"builtins", "frozen">>}
              /\ pc' = "table"
              /\ tab_i' = 0
              /\ resources' = resources
        /\ (op = "load" /\ pc = "done" /\ result # "ok") => calls' # calls
        /\ (op = "load" /\ pc = "done" /\ step = "frozen") => calls' # calls
      ]_vars

\* The builtin step of a load failed and load returned its error; the
\* frozen table has names, and none was ingested.
C12_Witness ==
    /\ op = "load"
    /\ step = "builtins"
    /\ pc = "done"
    /\ result = "err"
    /\ err = "unable to parse PyImport_Inittab"
    /\ frozentab # << >>
    /\ resources # EmptyMap
    /\ \A k \in DOMAIN resources : ~resources[k].is_frozen

(***************************************************************************)
(* The step of an ingester that processes one name of its table.           *)
(***************************************************************************)
\* An ingester has processed record tab_i of its table in this step.
IngestsName == pc = "table" /\ tab_i' = tab_i + 1

\* The name the running ingester is at, and the flag it sets.
NameAt == IF step = "builtins" THEN inittab[tab_i + 1] ELSE frozentab[tab_i + 1]
FlagOf == IF step = "builtins" THEN "is_builtin" ELSE "is_frozen"
OtherFlags == {"is_package", "is_namespace_package", "is_builtin", "is_frozen"}
                  \ {FlagOf}

(***************************************************************************)
(* C13: merge, not replace.  When the builtin (frozen) ingester processes  *)
(* a name that has a catalog entry, the entry's is_builtin (is_frozen)     *)
(* becomes true, every other field of the entry keeps its value, and every *)
(* other entry of the catalog is unchanged.                                *)
(***************************************************************************)
C13_MergeNotReplace ==
    [][ (IngestsName /\ NameAt \in DOMAIN resources) =>
            /\ DOMAIN resources' = DOMAIN resources
            /\ resources'[NameAt][FlagOf] = TRUE
            /\ \A f \in DOMAIN resources[NameAt] \ {FlagOf} :
                  resources'[NameAt][f] = resources[NameAt][f]
            /\ \A k \in DOMAIN resources \ {NameAt} :
                  resources'[k] = resources[k]
      ]_vars

\* The frozen ingester has just merged into an entry that load_resources
\* decoded with payloads and that the builtin ingester had marked.
C13_Witness ==
    /\ step = "frozen"
    /\ pc = "table"
    /\ tab_i >= 1
    /\ frozentab[tab_i] \in DOMAIN resources
    /\ LET e == resources[frozentab[tab_i]]
       IN  /\ e.is_frozen
           /\ e.is_builtin
           /\ e.is_package
           /\ e.in_memory_bytecode # None
           /\ e.name.buf \notin {INITTAB, FROZEN}
    /\ Cardinality(DOMAIN resources) >= 2

(***************************************************************************)
(* C14: when the builtin (frozen) ingester processes a name that has no    *)
(* catalog entry, it inserts under that name an entry whose name is that   *)
(* name, whose is_builtin (is_frozen) is true, whose other flags are false *)
(* and whose payload fields are all absent.                                *)
(***************************************************************************)
C14_InsertFresh ==
    [][ (IngestsName /\ NameAt \notin DOMAIN resources) =>
            /\ DOMAIN resources' = DOMAIN resources \cup {NameAt}
            /\ StrOf(resources'[NameAt].name) = NameAt
            /\ resources'[NameAt][FlagOf] = TRUE
            /\ \A f \in OtherFlags : resources'[NameAt][f] = FALSE
            /\ \A f \in PayloadFields : resources'[NameAt][f] = None
      ]_vars

\* The builtin ingester has just inserted an entry for a name the catalog,
\* filled by load_resources, did not have.
C14_Witness ==
    /\ step = "builtins"
    /\ pc = "table"
    /\ tab_i >= 1
    /\ before # EmptyMap
    /\ inittab[tab_i] \in DOMAIN resources \ DOMAIN before
    /\ LET e == resources[inittab[tab_i]]
       IN  /\ e.is_builtin
           /\ ~e.is_frozen
           /\ e.name = TableSlice(INITTAB, tab_i - 1, inittab[tab_i])

(***************************************************************************)
(* C15: idempotence of merge.  With the tables fixed, after N >= 2 rounds  *)
(* of the builtin ingester followed by the frozen ingester the catalog is  *)
(* the one the first round left, whatever the catalog was before the first *)
(* round and whether or not an ingester failed on a name.                  *)
(***************************************************************************)
\* The ingestions since the last load_resources are whole rounds.
WholeRounds ==
    /\ Len(hist) % 2 = 0
    /\ \A i \in 1 .. Len(hist) :
          hist[i] = IF i % 2 = 1 THEN "builtins" ELSE "frozen"

C15_Idempotent ==
    (Returned /\ WholeRounds /\ Len(hist) >= 4) =>
        /\ once # None
        /\ resources = once[1]

\* A second round has ended on a catalog that load_resources filled and
\* that the first round changed.
C15_Witness ==
    /\ Returned
    /\ WholeRounds
    /\ Len(hist) = 4
    /\ once = Some(resources)
    /\ family # "none"
    /\ \E k \in DOMAIN resources : resources[k].name.buf = INITTAB
    /\ \E k \in DOMAIN resources :
          resources[k].is_frozen /\ resources[k].in_memory_source # None

(***************************************************************************)
(* C16: uses_pyembed_importer returns true if and only if at least one of  *)
(* in_memory_bytecode, in_memory_bytecode_opt1, in_memory_bytecode_opt2    *)
(* and in_memory_shared_library_extension_module is present; source,       *)
(* resources, distribution data, an in-memory shared library, dependency   *)
(* names and the flags do not make it true.                                *)
(***************************************************************************)
ImporterFields ==
    {"in_memory_bytecode", "in_memory_bytecode_opt1", "in_memory_bytecode_opt2",
     "in_memory_shared_library_extension_module"}

Present(r) == {f \in PayloadFields : r[f] # None}

C16_UsesImporterIff ==
    answer # None =>
        (answer[1] <=> Present(current_resource) \cap ImporterFields # {})

\* The answer is false for a builtin, frozen package with source, resources,
\* distribution data, an in-memory shared library and dependency names.
C16_Witness ==
    /\ answer = Some(FALSE)
    /\ Present(current_resource) = PayloadFields \ ImporterFields
    /\ current_resource.is_builtin
    /\ current_resource.is_frozen
    /\ current_resource.is_package

(***************************************************************************)
(* C17: in every state the caller can bring about from the empty catalog   *)
(* by load, load_resources and the two ingesters, whether the calls        *)
(* succeed or fail, the name of every entry of the catalog is the key the  *)
(* entry is stored under; also for an entry whose index record has more    *)
(* than one MODULE_NAME field.                                             *)
(***************************************************************************)
C17_NameIsKey ==
    \A k \in DOMAIN resources : StrOf(resources[k].name) = k

\* After two buffers and an ingestion, the second call having failed, the
\* catalog has the entry decoded from the record with two MODULE_NAME
\* fields of the first buffer, an entry of the second buffer and an entry a
\* table gave.
C17_Witness ==
    /\ Returned
    /\ result = "err"
    /\ LoadsMade = 2
    /\ \E k \in DOMAIN resources : resources[k].name.buf \in {INITTAB, FROZEN}
    /\ NameB \in DOMAIN resources
    /\ resources[NameB].name.buf \in DOMAIN loaded
    /\ resources[NameB].in_memory_source # None
    /\ \E k \in DOMAIN resources : resources[k].name.buf = buf_id

(***************************************************************************)
(* Regions of one payload category.                                        *)
(***************************************************************************)
\* The slices the entry r holds for the payload category with field tag t.
RegionsOf(r, t) ==
    CASE t = FIELD_MODULE_NAME -> {r.name}
      [] t = FIELD_IN_MEMORY_SOURCE -> OptSlices(r.in_memory_source)
      [] t = FIELD_IN_MEMORY_BYTECODE -> OptSlices(r.in_memory_bytecode)
      [] t = FIELD_IN_MEMORY_BYTECODE_OPT1 -> OptSlices(r.in_memory_bytecode_opt1)
      [] t = FIELD_IN_MEMORY_BYTECODE_OPT2 -> OptSlices(r.in_memory_bytecode_opt2)
      [] t = FIELD_IN_MEMORY_EXTENSION_MODULE_SHARED_LIBRARY ->
            OptSlices(r.in_memory_shared_library_extension_module)
      [] t = FIELD_IN_MEMORY_RESOURCES_DATA -> MapSlices(r.in_memory_resources)
      [] t = FIELD_IN_MEMORY_PACKAGE_DISTRIBUTION ->
            MapSlices(r.in_memory_package_distribution)
      [] t = FIELD_IN_MEMORY_SHARED_LIBRARY -> OptSlices(r.in_memory_shared_library)
      [] OTHER ->
            IF r.shared_library_dependency_names = None THEN {}
            ELSE OptSlices(r.shared_library_dependency_names[1])

\* The place, among the insertions of this call, of the one that gave the
\* catalog its entry under key k.
DecodedAt(k) ==
    CHOOSE i \in 1 .. Len(order) :
        order[i] = k /\ \A j \in i + 1 .. Len(order) : order[j] # k

\* The bytes [off, off + len) of two slices have no offset in common.
Disjoint(s1, s2) ==
    \A x \in s1.off .. s1.off + s1.len - 1 :
        x \notin s2.off .. s2.off + s2.len - 1

\* C18: after a successful load_resources, for any two decoded entries and
\* any one payload category, the regions of the buffer the two entries hold
\* for that category do not overlap, and every region of the entry decoded
\* earlier ends at or before the offset where a region of the entry decoded
\* later starts.
C18_RegionsInDecodeOrder ==
    (Done /\ result = "ok") =>
        /\ DOMAIN resources = {order[i] : i \in 1 .. Len(order)}
        /\ \A k1, k2 \in DOMAIN resources :
              DecodedAt(k1) < DecodedAt(k2) =>
                 \A t \in PayloadTags :
                    \A s1 \in RegionsOf(resources[k1], t) :
                       \A s2 \in RegionsOf(resources[k2], t) :
                          /\ Disjoint(s1, s2)
                          /\ s1.off + s1.len <= s2.off

\* Two entries were decoded, each with a non-empty source and resources map
\* and dependency names.
C18_Witness ==
    /\ Done
    /\ result = "ok"
    /\ \E k1, k2 \in DOMAIN resources :
          /\ DecodedAt(k1) < DecodedAt(k2)
          /\ \A t \in {FIELD_MODULE_NAME, FIELD_IN_MEMORY_SOURCE,
                       FIELD_IN_MEMORY_RESOURCES_DATA,
                       FIELD_SHARED_LIBRARY_DEPENDENCY_NAMES} :
                /\ \E s \in RegionsOf(resources[k1], t) : s.len > 0
                /\ \E s \in RegionsOf(resources[k2], t) : s.len > 0

(***************************************************************************)
(* A table with a name that is not UTF-8.                                  *)
(***************************************************************************)
Ingesters == {"builtins", "frozen"}
TableOf(s) == IF s = "builtins" THEN inittab ELSE frozentab
TableNameOf(s) == IF s = "builtins" THEN INITTAB ELSE FROZEN
TableFlagOf(s) == IF s = "builtins" THEN "is_builtin" ELSE "is_frozen"
TableErrorOf(s) ==
    IF s = "builtins" THEN "unable to parse PyImport_Inittab"
    ELSE "unable to parse PyImport_FrozenModules"

HasBadName(tab) == \E i \in 1 .. Len(tab) : ~Utf8Valid(tab[i])

\* How many names precede the first name that is not UTF-8.
GoodPrefix(tab) ==
    Cardinality({i \in 1 .. Len(tab) : \A j \in 1 .. i : Utf8Valid(tab[j])})

\* The catalog m after the first n names of the table of ingester s were
\* merged into it.
RECURSIVE MergedPrefix(_, _, _)
MergedPrefix(m, s, n) ==
    IF n = 0 THEN m
    ELSE Ingest(MergedPrefix(m, s, n - 1),
                TableSlice(TableNameOf(s), n - 1, TableOf(s)[n]),
                TableOf(s)[n], TableFlagOf(s))

\* An ingester has returned from a table that has a name that is not UTF-8.
BadTableDone(s) == step = s /\ pc = "done" /\ HasBadName(TableOf(s))

\* The statement of C19 as written: the failed step has changed no catalog
\* entry.
C19_FailedStepChangesNothing ==
    \A s \in Ingesters :
        BadTableDone(s) =>
            /\ result = "err"
            /\ err = TableErrorOf(s)
            /\ resources = before

\* C19: if the builtin (resp. frozen) table contains a name that is not
\* valid UTF-8, the ingestion step returns the error "unable to parse
\* PyImport_Inittab" (resp. "unable to parse PyImport_FrozenModules"), and
\* load returns that error: it runs no further step.  The names before the
\* first name that is not UTF-8 have been merged into the catalog, and
\* nothing else in the catalog has changed.
C19_NonUtf8FailsStep ==
    [][ /\ \A s \in Ingesters :
              BadTableDone(s)' =>
                 /\ result' = "err"
                 /\ err' = TableErrorOf(s)
                 /\ resources' =
                       MergedPrefix(before', s, GoodPrefix(TableOf(s)'))
        /\ (op = "load" /\ pc = "done" /\ result = "err") =>
              (op' # "load" \/ UNCHANGED <<step, pc, result, err, resources>>)
      ]_vars

\* load has returned the error of the builtin step, which had merged a name
\* into the catalog before it met the name that is not UTF-8.
C19_Witness ==
    /\ op = "load"
    /\ BadTableDone("builtins")
    /\ result = "err"
    /\ GoodPrefix(inittab) >= 1
    /\ resources # before
    /\ before # EmptyMap

(***************************************************************************)
(* The blob-section index, on the bytes of the buffer.                     *)
(***************************************************************************)
\* The offset of the tag of record i (from 1) of the blob-section index.
RecordOffset(i) == 21 + 9 * (i - 1)

\* Byte at offset p is in the buffer.
HasByte(p) == p < Len(data)

\* The loop gets past the records before record i: each is whole and has a
\* tag the loop handles.
RecordsBefore(i) ==
    \A j \in 1 .. i - 1 :
        /\ Len(data) >= RecordOffset(j) + 9
        /\ data[RecordOffset(j) + 1] \in PayloadTags

BlobIndexErrors ==
    {"failed reading blob length field type", "unexpected end of blob index",
     "failed reading field blob length", "failed to convert blob size to usize",
     "unhandled field in blob length index",
     "failed to read end of blob index field",
     "unexpected value at end of blob index"}

\* C20: with blob_index_length > 0 the decoder reads blob_section_count
\* records of 9 bytes and then one terminator byte, so that it leaves the
\* blob-section index at offset 21 + 9 * blob_section_count + 1; the first
\* record of these whose tag is END_OF_INDEX ends the call with "unexpected
\* end of blob index", and a byte other than END_OF_INDEX after the records
\* ends it with "unexpected value at end of blob index".  With
\* blob_index_length = 0 no byte of a blob-section index is read, whatever
\* blob_section_count is: no record is counted, no blob length
\* accumulated, no error of the blob-section index returned, and the
\* per-entry loop starts at offset 21.
C20_BlobIndexLoop ==
    LET n == HeaderBlobSectionCount(data)
    IN  HasFixedHeader(data) =>
           /\ HeaderBlobIndexLength(data) > 0 =>
                 /\ blob_i <= n
                 /\ pc = "blob_index" => pos = RecordOffset(blob_i + 1)
                 /\ pc = "offsets" =>
                       /\ blob_i = n
                       /\ pos = RecordOffset(n + 1) + 1
                       /\ RecordsBefore(n + 1)
                       /\ data[RecordOffset(n + 1) + 1] = FIELD_END_OF_INDEX
                 /\ Done =>
                       /\ (\E i \in 1 .. n :
                              /\ RecordsBefore(i)
                              /\ HasByte(RecordOffset(i))
                              /\ data[RecordOffset(i) + 1] = FIELD_END_OF_INDEX)
                          <=> (result = "err"
                               /\ err = "unexpected end of blob index")
                       /\ (/\ RecordsBefore(n + 1)
                           /\ HasByte(RecordOffset(n + 1))
                           /\ data[RecordOffset(n + 1) + 1] # FIELD_END_OF_INDEX)
                          <=> (result = "err"
                               /\ err = "unexpected value at end of blob index")
           /\ HeaderBlobIndexLength(data) = 0 =>
                 /\ pc # "blob_index"
                 /\ blob_i = 0
                 /\ total_blob_offset = 0
                 /\ \A t \in PayloadTags : start_offset[t] = 0
                 /\ err \notin BlobIndexErrors
                 /\ pc = "offsets" => pos = 21
                 /\ walk_reads # << >> => walk_reads[1] = 21

\* Two records were read and the byte after them is not END_OF_INDEX.
C20_Witness ==
    /\ Done
    /\ HasFixedHeader(data)
    /\ HeaderBlobIndexLength(data) > 0
    /\ HeaderBlobSectionCount(data) = 2
    /\ blob_i = 2
    /\ err = "unexpected value at end of blob index"

\* Record i of the blob-section index is whole: its tag and its length are
\* in the buffer.
WholeRecord(i) == Len(data) >= RecordOffset(i) + 9

\* C21: with blob_index_length > 0, load_resources returns "unhandled field
\* in blob length index" exactly when the blob-section index loop reaches a
\* whole record whose tag is not one of the ten payload tags and not
\* END_OF_INDEX: START_OF_ENTRY, END_OF_ENTRY, IS_PACKAGE,
\* IS_NAMESPACE_PACKAGE or a value above 0x0e.
C21_UnhandledBlobField ==
    (Done /\ HasFixedHeader(data) /\ HeaderBlobIndexLength(data) > 0) =>
        ((\E i \in 1 .. HeaderBlobSectionCount(data) :
             /\ RecordsBefore(i)
             /\ WholeRecord(i)
             /\ data[RecordOffset(i) + 1] \notin PayloadTags
             /\ data[RecordOffset(i) + 1] # FIELD_END_OF_INDEX)
         <=> (result = "err" /\ err = "unhandled field in blob length index"))

\* The second record of the blob-section index has a tag above 0x0e.
C21_Witness ==
    /\ Done
    /\ HasFixedHeader(data)
    /\ HeaderBlobIndexLength(data) > 0
    /\ HeaderBlobSectionCount(data) = 2
    /\ blob_i = 1
    /\ data[RecordOffset(2) + 1] > FIELD_SHARED_LIBRARY_DEPENDENCY_NAMES
    /\ err = "unhandled field in blob length index"

(***************************************************************************)
(* The cursors, from the bytes of the blob-section index.                  *)
(***************************************************************************)
\* The blob_length of record i of the blob-section index.
RecordLength(i) == ReadLE(data, RecordOffset(i) + 1, 8)

\* The sum of the blob_length values of the first n records.
RECURSIVE LengthsBefore(_)
LengthsBefore(n) == IF n = 0 THEN 0 ELSE LengthsBefore(n - 1) + RecordLength(n)

\* The records of category t among the blob_section_count records the
\* decoder reads (none when blob_index_length is 0).
RecordsOf(t) ==
    IF HeaderBlobIndexLength(data) = 0 THEN {}
    ELSE {i \in 1 .. HeaderBlobSectionCount(data) : data[RecordOffset(i) + 1] = t}

\* base(C): the lengths of the records before the record of category t (the
\* last one, when the index has several), 0 without a record.
BaseOf(t) ==
    IF RecordsOf(t) = {} THEN 0
    ELSE LengthsBefore((CHOOSE i \in RecordsOf(t) :
                           \A j \in RecordsOf(t) : j <= i) - 1)

\* The per-entry walk is about to read its first tag.
WalkStarts == pc = "walk" /\ walk_reads = << >>

\* No addition behind the cursors exceeds the 64 bit word: neither a
\* running total of the blob_length values nor the blob start plus a base.
SumsFit ==
    /\ HeaderBlobIndexLength(data) > 0 =>
           \A i \in 1 .. HeaderBlobSectionCount(data) :
               ~Overflows(LengthsBefore(i - 1), RecordLength(i))
    /\ \A t \in PayloadTags :
           ~Overflows(8 + 13 + HeaderBlobIndexLength(data)
                      + HeaderResourcesIndexLength(data), BaseOf(t))

RECURSIVE PairsClaimed(_, _)
PairsClaimed(n, p) ==
    IF n = 0 THEN 0
    ELSE ReadLE(data, p, 2) + ReadLE(data, p + 2, 8) + PairsClaimed(n - 1, p + 10)

\* n u16 name lengths from offset p.
RECURSIVE NamesClaimed(_, _)
NamesClaimed(n, p) ==
    IF n = 0 THEN 0 ELSE ReadLE(data, p, 2) + NamesClaimed(n - 1, p + 2)

\* The total length of the slices claimed by the record whose tag is at
\* offset p.
ClaimedAt(p) ==
    LET t == data[p + 1]
    IN  CASE t = FIELD_MODULE_NAME -> ReadLE(data, p + 1, 2)
          [] t \in U32SliceTags -> ReadLE(data, p + 1, 4)
          [] t = FIELD_IN_MEMORY_SHARED_LIBRARY -> ReadLE(data, p + 1, 8)
          [] t \in MapTags -> PairsClaimed(ReadLE(data, p + 1, 4), p + 5)
          [] t = FIELD_SHARED_LIBRARY_DEPENDENCY_NAMES ->
                NamesClaimed(ReadLE(data, p + 1, 2), p + 3)
          [] OTHER -> 0

\* C23: a step of the per-entry walk that processes a record of payload
\* category C advances the cursor of C by the total length of the slices
\* the record claims and leaves the cursors of the other categories
\* unchanged; a START_OF_ENTRY, END_OF_ENTRY, IS_PACKAGE or
\* IS_NAMESPACE_PACKAGE record leaves every cursor unchanged.
C23_CursorFrame ==
    [][ (pc = "walk" /\ pc' = "walk") =>
           \A t \in PayloadTags :
               cursor'[t] = cursor[t]
                            + (IF data[pos + 1] = t THEN ClaimedAt(pos) ELSE 0)
      ]_vars

\* A resources map with bytes has just been processed, after a name.
C23_Witness ==
    /\ pc = "walk"
    /\ last_tag = FIELD_IN_MEMORY_RESOURCES_DATA
    /\ cursor[FIELD_IN_MEMORY_RESOURCES_DATA]
          >= blob_start_offset + BaseOf(FIELD_IN_MEMORY_RESOURCES_DATA) + 3
    /\ cursor[FIELD_MODULE_NAME] > blob_start_offset + BaseOf(FIELD_MODULE_NAME)

\* C24: a tag greater than 0x0e read by the per-entry walk ends
\* load_resources with the error "invalid field type", inside an entry or
\* outside: such a tag is the last one the walk reads, and the error is
\* returned for no other reason.
C24_InvalidFieldType ==
    /\ \A i \in 1 .. Len(walk_reads) :
          TagsRead[i] > FIELD_SHARED_LIBRARY_DEPENDENCY_NAMES =>
             /\ i = Len(walk_reads)
             /\ Done
             /\ result = "err"
             /\ err = "invalid field type"
    /\ (Done /\ err = "invalid field type") =>
          /\ walk_reads # << >>
          /\ TagsRead[Len(walk_reads)] > FIELD_SHARED_LIBRARY_DEPENDENCY_NAMES

\* The tag 255 was read inside an entry: the tag before it is START_OF_ENTRY.
C24_Witness ==
    /\ Done
    /\ err = "invalid field type"
    /\ Len(walk_reads) = 2
    /\ TagsRead[1] = FIELD_START_OF_ENTRY
    /\ TagsRead[2] = 255

(***************************************************************************)
(* OUTSIDE and INSIDE, on the tags the walk has read.                      *)
(***************************************************************************)
\* INSIDE: a START_OF_ENTRY was read and no END_OF_ENTRY after it.
Inside ==
    \E i \in 1 .. Len(TagsRead) :
        /\ TagsRead[i] = FIELD_START_OF_ENTRY
        /\ \A j \in i + 1 .. Len(TagsRead) : TagsRead[j] # FIELD_END_OF_ENTRY

\* A MODULE_NAME was read and no START_OF_ENTRY or END_OF_ENTRY after it.
NameSinceMarker ==
    \E i \in 1 .. Len(TagsRead) :
        /\ TagsRead[i] = FIELD_MODULE_NAME
        /\ \A j \in i + 1 .. Len(TagsRead) :
              TagsRead[j] \notin {FIELD_START_OF_ENTRY, FIELD_END_OF_ENTRY}

\* The statement of C25 as written: the catalog changes only INSIDE, and the
\* walk ends with Ok only OUTSIDE.
C25_InsideOutside ==
    [][ pc = "walk" =>
           /\ resources' # resources => Inside
           /\ (pc' = "done" /\ result' = "ok") => ~Inside
      ]_vars

\* C25: the per-entry walk keeps no OUTSIDE/INSIDE state.  END_OF_ENTRY
\* commits the scratch entry exactly when a MODULE_NAME was read since the
\* most recent START_OF_ENTRY or END_OF_ENTRY, whether or not a
\* START_OF_ENTRY opened the entry, and no other record changes the catalog.
\* END_OF_INDEX ends the walk in any state, with Ok exactly when the number
\* of START_OF_ENTRY records read equals resources_count; the walk ends with
\* Ok in no other way, and an entry that is open then is dropped.
C25_CommitAndTermination ==
    [][ (pc = "walk" /\ CanRead(data, pos, 1)) =>
           LET t == data[pos + 1]
               commits == t = FIELD_END_OF_ENTRY /\ NameSinceMarker
           IN  /\ current_resource_name # None <=> NameSinceMarker
               /\ index_entry_count = StartsRead
               /\ commits =>
                     /\ pc' = "walk"
                     /\ order' = Append(order, Content(data, current_resource_name[1]))
                     /\ resources' =
                           MapInsert(resources,
                                     Content(data, current_resource_name[1]),
                                     current_resource)
               /\ ~commits => (resources' = resources /\ order' = order)
               /\ t = FIELD_END_OF_INDEX =>
                     /\ pc' = "done"
                     /\ result' = "ok" <=> index_entry_count = resources_count
               /\ (pc' = "done" /\ result' = "ok") => t = FIELD_END_OF_INDEX
      ]_vars

\* A successful decode that committed an entry no START_OF_ENTRY opened and
\* dropped the entry that was open, with a name, at END_OF_INDEX.
C25_Witness ==
    /\ Done
    /\ result = "ok"
    /\ TagsRead = <<FIELD_MODULE_NAME, FIELD_END_OF_ENTRY, FIELD_START_OF_ENTRY,
                    FIELD_MODULE_NAME, FIELD_END_OF_INDEX>>
    /\ DOMAIN resources = {NameA}
    /\ current_resource_name # None

(***************************************************************************)
(* The byte range the header declares for the per-entry index.             *)
(***************************************************************************)
DeclaredIndexStart == 21 + HeaderBlobIndexLength(data)
DeclaredIndexEnd ==
    21 + HeaderBlobIndexLength(data) + HeaderResourcesIndexLength(data)

\* C26: the per-entry index is read only from the byte range the header
\* declares for it: the first per-entry tag is read at offset
\* 21 + blob_index_length, every tag is read before offset
\* 21 + blob_index_length + resources_index_length, and the reader has not
\* gone beyond that offset while the walk runs or when it has ended.
C26_IndexWithinDeclaredRange ==
    walk_reads # << >> =>
        /\ walk_reads[1] = DeclaredIndexStart
        /\ \A i \in 1 .. Len(walk_reads) : walk_reads[i] < DeclaredIndexEnd
        /\ pos <= DeclaredIndexEnd

(***************************************************************************)
(* What the per-entry index claims against what the blob-section index     *)
(* declares.                                                               *)
(***************************************************************************)
\* The blob_length the blob-section index declares for category t.
DeclaredLength(t) ==
    IF RecordsOf(t) = {} THEN 0
    ELSE RecordLength(CHOOSE i \in RecordsOf(t) : \A j \in RecordsOf(t) : j <= i)

\* The total length of the slices of category t the walk has claimed.
ClaimedLength(t) == cursor[t] - (blob_start_offset + start_offset[t])

\* C27: after a successful load_resources, for every payload category the
\* total length of the slices claimed by the per-entry index does not
\* exceed the blob_length the blob-section index declares for the category,
\* and slices of two different categories never overlap in the buffer.
C27_ClaimedWithinDeclared ==
    (Done /\ result = "ok" /\ walk_reads # << >>) =>
        /\ \A t \in PayloadTags : ClaimedLength(t) <= DeclaredLength(t)
        /\ \A k1, k2 \in DOMAIN resources :
              \A t1, t2 \in PayloadTags :
                 t1 # t2 =>
                    \A s1 \in RegionsOf(resources[k1], t1) :
                       \A s2 \in RegionsOf(resources[k2], t2) : Disjoint(s1, s2)

(***************************************************************************)
(* The scratch entry against the records read since the last marker.       *)
(***************************************************************************)
\* A record with tag t was read and no START_OF_ENTRY or END_OF_ENTRY after
\* it.
TagSinceMarker(t) ==
    \E i \in 1 .. Len(TagsRead) :
        /\ TagsRead[i] = t
        /\ \A j \in i + 1 .. Len(TagsRead) :
              TagsRead[j] \notin {FIELD_START_OF_ENTRY, FIELD_END_OF_ENTRY}

\* The optional field of the entry r that the record with tag t sets.
FieldOf(r, t) ==
    CASE t = FIELD_IN_MEMORY_SOURCE -> r.in_memory_source
      [] t = FIELD_IN_MEMORY_BYTECODE -> r.in_memory_bytecode
      [] t = FIELD_IN_MEMORY_BYTECODE_OPT1 -> r.in_memory_bytecode_opt1
      [] t = FIELD_IN_MEMORY_BYTECODE_OPT2 -> r.in_memory_bytecode_opt2
      [] t = FIELD_IN_MEMORY_EXTENSION_MODULE_SHARED_LIBRARY ->
            r.in_memory_shared_library_extension_module
      [] t = FIELD_IN_MEMORY_RESOURCES_DATA -> r.in_memory_resources
      [] t = FIELD_IN_MEMORY_PACKAGE_DISTRIBUTION ->
            r.in_memory_package_distribution
      [] t = FIELD_IN_MEMORY_SHARED_LIBRARY -> r.in_memory_shared_library
      [] OTHER -> r.shared_library_dependency_names

\* The entry r has exactly the flags and payload fields of the records read
\* since the last marker.
OnlySinceMarker(r) ==
    /\ \A t \in PayloadTags \ {FIELD_MODULE_NAME} :
          FieldOf(r, t) # None <=> TagSinceMarker(t)
    /\ r.is_package <=> TagSinceMarker(FIELD_IS_PACKAGE)
    /\ r.is_namespace_package <=> TagSinceMarker(FIELD_IS_NAMESPACE_PACKAGE)
    /\ ~r.is_builtin
    /\ ~r.is_frozen
    /\ r.name = DefaultResource.name <=> ~TagSinceMarker(FIELD_MODULE_NAME)

\* C28: every entry END_OF_ENTRY commits has exactly the flags and payload
\* fields set by the records read since the most recent START_OF_ENTRY or
\* END_OF_ENTRY, and every other field at its default; START_OF_ENTRY resets
\* the scratch entry and its name and leaves the catalog as it is, so an
\* entry that was open is discarded.
C28_ScratchIsolation ==
    [][ /\ pc = "walk" => OnlySinceMarker(current_resource)
        /\ (AtTag(FIELD_END_OF_ENTRY) /\ current_resource_name # None) =>
              /\ OnlySinceMarker(
                     resources'[Content(data, current_resource_name[1])])
              /\ current_resource' = DefaultResource
        /\ AtTag(FIELD_START_OF_ENTRY) =>
              /\ current_resource' = DefaultResource
              /\ current_resource_name' = None
              /\ resources' = resources
      ]_vars

\* An entry with a source was committed, and the entry committed after it
\* has no field but its name.
C28_Witness ==
    /\ Done
    /\ result = "ok"
    /\ NameA \in DOMAIN resources
    /\ NameB \in DOMAIN resources
    /\ DecodedAt(NameB) < DecodedAt(NameA)
    /\ resources[NameB].in_memory_source # None
    /\ resources[NameA] = [DefaultResource EXCEPT !.name = resources[NameA].name]

(***************************************************************************)
(* The catalog after load.                                                 *)
(***************************************************************************)
\* load has returned Ok(()).
LoadSucceeded ==
    op = "load" /\ step = "frozen" /\ pc = "done" /\ result = "ok"

NamesIn(tab) == {tab[i] : i \in 1 .. Len(tab)}

\* The names of the entries load_resources decoded from the buffer.
NamesInBuffer == {order[i] : i \in 1 .. Len(order)}

\* No payload, and neither package flag.
Bare(r) ==
    /\ \A t \in PayloadTags \ {FIELD_MODULE_NAME} : FieldOf(r, t) = None
    /\ ~r.is_package
    /\ ~r.is_namespace_package

\* What C29 says of the catalog load leaves behind.
FlagsMatchTables ==
    /\ NamesIn(inittab) \cup NamesIn(frozentab) \subseteq DOMAIN resources
    /\ \A k \in DOMAIN resources :
          /\ resources[k].is_builtin <=> k \in NamesIn(inittab)
          /\ resources[k].is_frozen <=> k \in NamesIn(frozentab)
          /\ k \notin NamesInBuffer => Bare(resources[k])

\* C29: after a successful load on a default catalog every name of the
\* builtin or frozen table has a catalog entry, is_builtin is true exactly
\* for the entries whose name is in the builtin table and is_frozen exactly
\* for those whose name is in the frozen table, and an entry whose name is
\* not in the buffer has no payload and neither package flag.  A step of
\* load_resources sets neither flag: it leaves the flags of an entry as
\* they are or inserts an entry with both flags false.
C29_FlagsAfterLoad ==
    [][ /\ LoadSucceeded' => FlagsMatchTables'
        /\ (step = "load_resources" /\ step' = "load_resources") =>
              \A k \in DOMAIN resources' :
                 \/ /\ k \in DOMAIN resources
                    /\ resources'[k].is_builtin = resources[k].is_builtin
                    /\ resources'[k].is_frozen = resources[k].is_frozen
                 \/ /\ ~resources'[k].is_builtin
                    /\ ~resources'[k].is_frozen
      ]_vars

\* load has decoded an entry with payloads whose name is in both tables, and
\* the tables have given an entry to a name that is not in the buffer.
C29_Witness ==
    /\ LoadSucceeded
    /\ NameA \in NamesInBuffer
    /\ resources[NameA].is_builtin
    /\ resources[NameA].is_frozen
    /\ resources[NameA].in_memory_source # None
    /\ NameZ \in DOMAIN resources
    /\ NameZ \notin NamesInBuffer
    /\ \E k \in DOMAIN resources :
          resources[k].is_frozen /\ ~resources[k].is_builtin

(***************************************************************************)
(* Termination.                                                            *)
(***************************************************************************)
\* The bytes of the index reader a whole record with its tag at offset p
\* takes: the tag, the length or count, and 10 bytes for each pair of a map
\* or 2 for each name of a list.
RecordSize(p) ==
    LET t == data[p + 1]
    IN  CASE t = FIELD_MODULE_NAME -> 3
          [] t \in U32SliceTags -> 5
          [] t = FIELD_IN_MEMORY_SHARED_LIBRARY -> 9
          [] t \in MapTags -> 5 + 10 * ReadLE(data, p + 1, 4)
          [] t = FIELD_SHARED_LIBRARY_DEPENDENCY_NAMES ->
                3 + 2 * ReadLE(data, p + 1, 2)
          [] OTHER -> 1

\* Every iteration of the blob-index loop and of the per-entry loop, the
\* iterations of the inner loops included, takes its bytes from the reader,
\* or the call ends; the reader never passes the end of the buffer.
Progress ==
    /\ pc = "blob_index" => (pc' = "done" \/ pos' = pos + 9 \/ pos' = pos + 1)
    /\ pc = "walk" => (pc' = "done" \/ pos' = pos + RecordSize(pos))
    /\ pos' >= pos
    /\ pos' <= Len(data)

AddsBlobLength ==
    /\ pc = "blob_index"
    /\ blob_i < blob_section_count
    /\ CanRead(data, pos, 9)
    /\ data[pos + 1] \in PayloadTags

\* An addition of the step exceeds the 64 bit word.
StepOverflows ==
    \/ /\ AddsBlobLength
       /\ Overflows(total_blob_offset, ReadLE(data, pos + 1, 8))
    \/ /\ pc = "offsets"
       /\ \E f \in PayloadTags : Overflows(blob_start_offset, start_offset[f])
    \/ /\ AtTag(FIELD_IN_MEMORY_SHARED_LIBRARY)
       /\ CanRead(data, pos + 1, 8)
       /\ Overflows(cursor[FIELD_IN_MEMORY_SHARED_LIBRARY], ReadLE(data, pos + 1, 8))

\* C31: offset arithmetic never wraps the machine word.  Whenever adding a
\* blob_length to total_blob_offset, a base offset to the blob start, or a
\* length to a cursor would exceed the word, the step ends the call with an
\* error: no step goes on with, or panics on, a sum reduced modulo 2^64.
C31_NoWrap ==
    [][StepOverflows => (pc' = "done" /\ result' = "err")]_vars

====
